---- MODULE Spec2Model ----
(***************************************************************************)
(* Deterministic tick engine of the planetary sandbox (crate sim_core):    *)
(* the sparse Diff (diff.rs), the fixed-point primitives (fixed.rs), the   *)
(* reducer (reduce.rs), the kernel runner (schedule.rs) and the per-tick   *)
(* driver tick_once (lib.rs) with its kernels.                             *)
(*                                                                         *)
(* The specifications that live here:                                      *)
(*   Spec        the tick driver: tick_once stepping through the kernel    *)
(*               schedule on a small world;                                *)
(*   SpecDiff    the Diff algebra: record_* calls building two diffs and   *)
(*               merge folding the second into the first;                  *)
(*   SpecApply   the reducer: apply called on diffs whose lists are        *)
(*               filled by hand, in any order and with any values;         *)
(*   SpecDelay   the coupler's baseline shift and the atmosphere step of   *)
(*               the next tick, in a shifted and a control world;          *)
(*   SpecSea     the sea level accumulator of the climate state;           *)
(*   SpecHazard  a hazard gauge blended toward zero;                       *)
(*   SpecStream  a random stream that is sampled and derived from;         *)
(*   SpecCoupler, SpecCryosphere, SpecEcology                              *)
(*               one kernel run and committed on prepared worlds.          *)
(***************************************************************************)
EXTENDS Integers, Sequences, FiniteSets, TLC

\* ------------------------------------------------------------------------
\* Bounds of the model
\* ------------------------------------------------------------------------

\* Number of regions a diff of SpecDiff may address (regions 0..DiffRegions-1).
DiffRegions == 2

\* Number of record_* calls made on the receiving diff before merge.
MaxSelfOps == 1

\* Number of record_* calls made on the diff that is merged in.
MaxOtherOps == 2

\* Number of tick_once calls a run of the driver makes.
MaxCalls == 3

\* ------------------------------------------------------------------------
\* Small helpers
\* ------------------------------------------------------------------------

Min(a, b) == IF a < b THEN a ELSE b

Max(a, b) == IF a > b THEN a ELSE b

\* i32::clamp / Ord::clamp of the standard library.
Clamp(v, lo, hi) == IF v < lo THEN lo ELSE IF v > hi THEN hi ELSE v

\* Vec::insert(idx, x) with a 0-based index.
VecInsert(s, idx, x) == SubSeq(s, 1, idx) \o <<x>> \o SubSeq(s, idx + 1, Len(s))

\* Vec::remove(idx) with a 0-based index.
VecRemove(s, idx) == SubSeq(s, 1, idx) \o SubSeq(s, idx + 2, Len(s))

\* ------------------------------------------------------------------------
\* fixed.rs
\* ------------------------------------------------------------------------

WATER_MAX == 10000

SOIL_MAX == 10000

ALBEDO_MAX == 1000

FRESHWATER_FLUX_MAX == 2000

I32_MAX == 2147483647

I32_MIN == -2147483647 - 1

U8_MAX == 255

\* Faulty variant of the clamp: the upper end is not enforced.
clamp_u16_floor_only(value, min, max) == IF value < min THEN min ELSE value

clamp_u16(value, min, max) == Clamp(value, min, max)

clamp_i16(value, min, max) == Clamp(value, min, max)

clamp_biome_index(value) == Clamp(value, 0, U8_MAX)

\* i32::from(current) + delta, then the clamp. Where the sum passes i32::MAX a
\* build without overflow checks wraps it around (written here without
\* leaving 32-bit integers); a build with them panics, and the call returns
\* nothing.
commit_resource_delta(current, delta, max) ==
    clamp_u16(IF delta > I32_MAX - current
              THEN I32_MIN + (current - (I32_MAX - delta) - 1)
              ELSE current + delta,
              0, max)

clamp_hazard_meter(value) == clamp_u16(value, 0, WATER_MAX)

\* ------------------------------------------------------------------------
\* cause.rs: an Entry is [target, code, note]. Targets are strings in the
\* program; the model keeps their rank in string order. Codes are the enum
\* discriminants (derive(Ord) orders by declaration). A note is 0 for None and
\* a positive rank for Some(text), so None sorts before every Some.
\* ------------------------------------------------------------------------

Entry(target, code, note) == [target |-> target, code |-> code, note |-> note]

\* The comparison closure of record_cause: existing.cmp(cause) by target, then
\* code, then note. -1 is Less, 0 Equal, 1 Greater.
CauseCmp(existing, cause) ==
    IF existing.target # cause.target
    THEN (IF existing.target < cause.target THEN -1 ELSE 1)
    ELSE IF existing.code # cause.code
    THEN (IF existing.code < cause.code THEN -1 ELSE 1)
    ELSE IF existing.note # cause.note
    THEN (IF existing.note < cause.note THEN -1 ELSE 1)
    ELSE 0

\* ------------------------------------------------------------------------
\* diff.rs: the Diff value. Every list is a sequence; diag_energy is an
\* Option, kept as a sequence of length 0 (None) or 1 (Some).
\* ------------------------------------------------------------------------

EmptyDiff ==
    [biome |-> <<>>, water |-> <<>>, soil |-> <<>>, insolation |-> <<>>,
     tide_envelope |-> <<>>, elevation |-> <<>>, temperature |-> <<>>,
     precipitation |-> <<>>, humidity |-> <<>>, albedo |-> <<>>,
     freshwater_flux |-> <<>>, ice_mass |-> <<>>, hazards |-> <<>>,
     causes |-> <<>>, diag_energy |-> <<>>,
     temperature_baseline |-> <<>>, permafrost_active |-> <<>>,
     melt_pulse |-> <<>>, diag_climate |-> <<>>, diagnostics |-> <<>>]

\* slice::binary_search_by_key(&region, |e| e.region) on a list sorted by
\* region with one entry per region: Ok(i) when entry i holds the region,
\* Err(i) with i the number of entries of a smaller region otherwise.
\* Indices are 0-based as in the program.
SearchRegion(list, region) ==
    IF \E i \in 1..Len(list) : list[i].region = region
    THEN [ok |-> TRUE, idx |-> (CHOOSE i \in 1..Len(list) : list[i].region = region) - 1]
    ELSE [ok |-> FALSE, idx |-> Cardinality({i \in 1..Len(list) : list[i].region < region})]

set_biome_value(d, region, biome) ==
    LET r == SearchRegion(d.biome, region) IN
    IF r.ok
    THEN [d EXCEPT !.biome[r.idx + 1].biome = biome]
    ELSE [d EXCEPT !.biome = VecInsert(@, r.idx, [region |-> region, biome |-> biome])]

\* Faulty variant of insert_delta: a delta for a region that already has one replaces
\* it instead of being added to it.
insert_delta_replaces(target, region, delta) ==
    LET r == SearchRegion(target, region) IN
    IF r.ok
    THEN [target EXCEPT ![r.idx + 1].delta = delta]
    ELSE VecInsert(target, r.idx, [region |-> region, delta |-> delta])

\* Faulty variant of insert_delta: the summed entry stays in the list when the sum
\* is 0.
insert_delta_keeps_zero(target, region, delta) ==
    LET r == SearchRegion(target, region) IN
    IF r.ok
    THEN [target EXCEPT ![r.idx + 1].delta = @ + delta]
    ELSE VecInsert(target, r.idx, [region |-> region, delta |-> delta])

insert_delta(target, region, delta) ==
    LET r == SearchRegion(target, region) IN
    IF r.ok
    THEN (IF target[r.idx + 1].delta + delta = 0
          THEN VecRemove(target, r.idx)
          ELSE [target EXCEPT ![r.idx + 1].delta = @ + delta])
    ELSE VecInsert(target, r.idx, [region |-> region, delta |-> delta])

set_scalar_value(target, region, value) ==
    LET r == SearchRegion(target, region) IN
    IF r.ok
    THEN [target EXCEPT ![r.idx + 1].value = value]
    ELSE VecInsert(target, r.idx, [region |-> region, value |-> value])

record_biome(d, region_index, biome) == set_biome_value(d, region_index, biome)

record_water_delta(d, region_index, delta) ==
    IF delta = 0 THEN d
    ELSE [d EXCEPT !.water = insert_delta(@, region_index, delta)]

record_soil_delta(d, region_index, delta) ==
    IF delta = 0 THEN d
    ELSE [d EXCEPT !.soil = insert_delta(@, region_index, delta)]

record_insolation(d, region_index, value) ==
    [d EXCEPT !.insolation = set_scalar_value(@, region_index, value)]

record_tide_envelope(d, region_index, value) ==
    [d EXCEPT !.tide_envelope = set_scalar_value(@, region_index, value)]

record_elevation(d, region_index, value) ==
    [d EXCEPT !.elevation = set_scalar_value(@, region_index, value)]

record_temperature(d, region_index, value) ==
    [d EXCEPT !.temperature = set_scalar_value(@, region_index, value)]

record_precipitation(d, region_index, value) ==
    [d EXCEPT !.precipitation = set_scalar_value(@, region_index, value)]

record_humidity(d, region_index, value) ==
    [d EXCEPT !.humidity = set_scalar_value(@, region_index, value)]

record_albedo(d, region_index, value) ==
    [d EXCEPT !.albedo = set_scalar_value(@, region_index, value)]

record_freshwater_flux(d, region_index, value) ==
    [d EXCEPT !.freshwater_flux = set_scalar_value(@, region_index, value)]

record_ice_mass(d, region_index, value) ==
    [d EXCEPT !.ice_mass = set_scalar_value(@, region_index, value)]

record_hazard(d, region_index, drought, flood) ==
    LET r == SearchRegion(d.hazards, region_index) IN
    IF r.ok
    THEN [d EXCEPT !.hazards[r.idx + 1].drought = drought,
                   !.hazards[r.idx + 1].flood = flood]
    ELSE [d EXCEPT !.hazards = VecInsert(@, r.idx,
              [region |-> region_index, drought |-> drought, flood |-> flood])]

\* Faulty variant of the binary search arms: an absent cause goes one place past the
\* index the search reports.
CauseInsertPositions_err_plus_one(causes, cause) ==
    LET hits == {i \in 1..Len(causes) : CauseCmp(causes[i], cause) = 0} IN
    IF hits # {}
    THEN {(i - 1) + 1 : i \in hits}
    ELSE {Min(Len(causes),
              Cardinality({i \in 1..Len(causes) : CauseCmp(causes[i], cause) < 0}) + 1)}

\* slice::binary_search_by on the cause list, which record_cause keeps sorted.
\* With several entries equal to the cause the library may report any one of
\* them, so the result is the set of insertion indices (0-based) the match
\* arms of record_cause can produce: idx + 1 for each Ok(idx), or the single
\* Err(idx).
CauseInsertPositions(causes, cause) ==
    LET hits == {i \in 1..Len(causes) : CauseCmp(causes[i], cause) = 0} IN
    IF hits # {}
    THEN {(i - 1) + 1 : i \in hits}
    ELSE {Cardinality({i \in 1..Len(causes) : CauseCmp(causes[i], cause) < 0})}

\* Every cause list record_cause may leave behind.
CauseInsertOutcomes(causes, cause) ==
    {VecInsert(causes, p, cause) : p \in CauseInsertPositions(causes, cause)}

record_cause(d, cause) ==
    [d EXCEPT !.causes = CHOOSE out \in CauseInsertOutcomes(@, cause) : TRUE]

RECURSIVE extend_causes(_, _)
extend_causes(d, causes) ==
    IF causes = <<>> THEN d
    ELSE extend_causes(record_cause(d, Head(causes)), Tail(causes))

record_diag_energy(d, diag) == [d EXCEPT !.diag_energy = <<diag>>]

\* One `for` loop of merge: fold the entries of a list into the diff.
RECURSIVE MergeBiome(_, _)
MergeBiome(d, list) ==
    IF list = <<>> THEN d
    ELSE MergeBiome(set_biome_value(d, Head(list).region, Head(list).biome), Tail(list))

\* Faulty variant of the delta loops of merge: the incoming delta replaces the
\* receiver's instead of being added to it.
RECURSIVE MergeDeltas_overwrite(_, _)
MergeDeltas_overwrite(target, list) ==
    IF list = <<>> THEN target
    ELSE MergeDeltas_overwrite(
             LET r == SearchRegion(target, Head(list).region) IN
             IF r.ok THEN [target EXCEPT ![r.idx + 1].delta = Head(list).delta]
             ELSE VecInsert(target, r.idx, Head(list)),
             Tail(list))

RECURSIVE MergeDeltas(_, _)
MergeDeltas(target, list) ==
    IF list = <<>> THEN target
    ELSE MergeDeltas(insert_delta(target, Head(list).region, Head(list).delta), Tail(list))

RECURSIVE MergeScalars(_, _)
MergeScalars(target, list) ==
    IF list = <<>> THEN target
    ELSE MergeScalars(set_scalar_value(target, Head(list).region, Head(list).value), Tail(list))

RECURSIVE MergeHazards(_, _)
MergeHazards(d, list) ==
    IF list = <<>> THEN d
    ELSE MergeHazards(record_hazard(d, Head(list).region, Head(list).drought, Head(list).flood),
                      Tail(list))

\* Diff::merge(&mut self, other): self after the call.
merge(self, other) ==
    LET d1 == MergeBiome(self, other.biome)
        d2 == [d1 EXCEPT
                 !.water = MergeDeltas(@, other.water),
                 !.soil = MergeDeltas(@, other.soil),
                 !.insolation = MergeScalars(@, other.insolation),
                 !.tide_envelope = MergeScalars(@, other.tide_envelope),
                 !.elevation = MergeScalars(@, other.elevation),
                 !.temperature = MergeScalars(@, other.temperature),
                 !.precipitation = MergeScalars(@, other.precipitation),
                 !.humidity = MergeScalars(@, other.humidity),
                 !.albedo = MergeScalars(@, other.albedo),
                 !.freshwater_flux = MergeScalars(@, other.freshwater_flux),
                 !.ice_mass = MergeScalars(@, other.ice_mass)]
        d3 == MergeHazards(d2, other.hazards)
        d4 == extend_causes(d3, other.causes)
    IN  IF other.diag_energy # <<>>
        THEN [d4 EXCEPT !.diag_energy = other.diag_energy]
        ELSE d4

is_empty(d) ==
    /\ d.biome = <<>> /\ d.water = <<>> /\ d.soil = <<>>
    /\ d.insolation = <<>> /\ d.tide_envelope = <<>> /\ d.elevation = <<>>
    /\ d.temperature = <<>> /\ d.precipitation = <<>> /\ d.humidity = <<>>
    /\ d.albedo = <<>> /\ d.freshwater_flux = <<>> /\ d.ice_mass = <<>>
    /\ d.hazards = <<>> /\ d.causes = <<>> /\ d.diag_energy = <<>>

\* ------------------------------------------------------------------------
\* world.rs
\* ------------------------------------------------------------------------

Hazards(drought, flood) == [drought |-> drought, flood |-> flood]

\* struct Region. latitude_deg is kept in whole degrees.
Region(id, x, y, elevation_m, latitude_deg, biome, water, soil, temperature_tenths_c, precipitation_mm, albedo_milli, freshwater_flux_tenths_mm, ice_mass_kilotons, hazards) ==
    [id |-> id, x |-> x, y |-> y, elevation_m |-> elevation_m,
     latitude_deg |-> latitude_deg, biome |-> biome, water |-> water, soil |-> soil,
     temperature_tenths_c |-> temperature_tenths_c,
     precipitation_mm |-> precipitation_mm, albedo_milli |-> albedo_milli,
     freshwater_flux_tenths_mm |-> freshwater_flux_tenths_mm,
     ice_mass_kilotons |-> ice_mass_kilotons, hazards |-> hazards]

\* ClimateState::from_regions. snowpack_mm and permafrost_active_cm are the
\* two reservoirs the cryosphere kernel indexes.
from_regions(regions) ==
    [temperature_baseline_tenths |-> [i \in 1..Len(regions) |-> 0],
     last_albedo_milli |-> [i \in 1..Len(regions) |-> regions[i].albedo_milli],
     last_insolation_tenths |-> [i \in 1..Len(regions) |-> 0],
     snowpack_mm |-> [i \in 1..Len(regions) |-> 0],
     permafrost_active_cm |-> [i \in 1..Len(regions) |-> 0],
     sea_level_equivalent_mm |-> 0]

\* World::new
NewWorld(seed, width, height, regions) ==
    [tick |-> 0, seed |-> seed, width |-> width, height |-> height,
     regions |-> regions, climate |-> from_regions(regions)]

\* Vec::resize(region_count, 0) when the vector is shorter.
GrowZero(vec, region_count) ==
    IF Len(vec) < region_count
    THEN vec \o [i \in 1..(region_count - Len(vec)) |-> 0]
    ELSE vec

ensure_region_capacity(climate, region_count) ==
    [climate EXCEPT
       !.temperature_baseline_tenths = GrowZero(@, region_count),
       !.last_albedo_milli = GrowZero(@, region_count),
       !.last_insolation_tenths = GrowZero(@, region_count),
       !.snowpack_mm = GrowZero(@, region_count),
       !.permafrost_active_cm = GrowZero(@, region_count)]

\* Faulty variant of the addition: i32::wrapping_add.
saturating_add_wraps(a, b) ==
    IF b > 0 /\ a > I32_MAX - b THEN (a - I32_MAX) + (b - I32_MAX) - 2
    ELSE IF b < 0 /\ a < I32_MIN - b THEN (a - I32_MIN) + (b - I32_MIN)
    ELSE a + b

\* i32::saturating_add. The sum is formed without leaving the checker's
\* 32-bit integers.
saturating_add(a, b) ==
    IF b > 0 /\ a > I32_MAX - b THEN I32_MAX
    ELSE IF b < 0 /\ a < I32_MIN - b THEN I32_MIN
    ELSE a + b

\* Faulty variant of the accumulator: the sum wraps around at the ends of i32.
add_sea_level_equivalent_mm_wrapping(climate, delta_mm) ==
    [climate EXCEPT !.sea_level_equivalent_mm = saturating_add_wraps(@, delta_mm)]

add_sea_level_equivalent_mm(climate, delta_mm) ==
    IF delta_mm = 0 THEN climate
    ELSE [climate EXCEPT !.sea_level_equivalent_mm = saturating_add(@, delta_mm)]

\* ------------------------------------------------------------------------
\* reduce.rs
\* ------------------------------------------------------------------------

TEMP_MIN_TENTHS_C == -500

TEMP_MAX_TENTHS_C == 500

PRECIP_MAX_MM == 5000

\* Faulty variant of the sort: a selection sort that swaps, which does not
\* keep the order of entries of one region.
RECURSIVE SortByRegion_unstable(_)
SortByRegion_unstable(list) ==
    IF Len(list) <= 1 THEN list
    ELSE LET m == CHOOSE i \in 1..Len(list) :
                      /\ \A j \in 1..Len(list) : list[i].region <= list[j].region
                      /\ \A j \in 1..(i - 1) : list[j].region > list[i].region
             swapped == [list EXCEPT ![1] = list[m], ![m] = list[1]]
         IN  <<swapped[1]>> \o SortByRegion_unstable(Tail(swapped))

\* slice::sort_by_key(|e| e.region): a stable sort, so entries of one region
\* keep their relative order.
RECURSIVE SortByRegion(_)
SortByRegion(list) ==
    IF list = <<>> THEN <<>>
    ELSE LET rest == SortByRegion(SubSeq(list, 1, Len(list) - 1))
             x == list[Len(list)]
             k == Cardinality({i \in 1..Len(rest) : rest[i].region <= x.region})
         IN  VecInsert(rest, k, x)

\* regions.get_mut(index) answers Some exactly for index < len.
InRange(vec, index) == index >= 0 /\ index < Len(vec)

RECURSIVE ApplyBiome(_, _)
ApplyBiome(regions, list) ==
    IF list = <<>> THEN regions
    ELSE LET c == Head(list) IN
         ApplyBiome(IF InRange(regions, c.region)
                    THEN [regions EXCEPT ![c.region + 1].biome = clamp_biome_index(c.biome)]
                    ELSE regions,
                    Tail(list))

\* The loops that store a diff value into a climate vector slot.
RECURSIVE ApplySlots(_, _, _, _)
ApplySlots(vec, list, lo, hi) ==
    IF list = <<>> THEN vec
    ELSE LET v == Head(list) IN
         ApplySlots(IF InRange(vec, v.region)
                    THEN [vec EXCEPT ![v.region + 1] = Clamp(v.value, lo, hi)]
                    ELSE vec,
                    Tail(list), lo, hi)

RECURSIVE ApplyWater(_, _)
ApplyWater(regions, list) ==
    IF list = <<>> THEN regions
    ELSE LET c == Head(list) IN
         ApplyWater(IF InRange(regions, c.region)
                    THEN [regions EXCEPT ![c.region + 1].water =
                              commit_resource_delta(@, c.delta, WATER_MAX)]
                    ELSE regions,
                    Tail(list))

RECURSIVE ApplySoil(_, _)
ApplySoil(regions, list) ==
    IF list = <<>> THEN regions
    ELSE LET c == Head(list) IN
         ApplySoil(IF InRange(regions, c.region)
                   THEN [regions EXCEPT ![c.region + 1].soil =
                             commit_resource_delta(@, c.delta, SOIL_MAX)]
                   ELSE regions,
                   Tail(list))

\* The scalar loops of apply: field names the region field written, lo..hi
\* the clamp of that loop (the elevation loop stores the value as it is).
RECURSIVE ApplyElevation(_, _)
ApplyElevation(regions, list) ==
    IF list = <<>> THEN regions
    ELSE LET v == Head(list) IN
         ApplyElevation(IF InRange(regions, v.region)
                        THEN [regions EXCEPT ![v.region + 1].elevation_m = v.value]
                        ELSE regions,
                        Tail(list))

RECURSIVE ApplyTemperature(_, _)
ApplyTemperature(regions, list) ==
    IF list = <<>> THEN regions
    ELSE LET v == Head(list) IN
         ApplyTemperature(IF InRange(regions, v.region)
                          THEN [regions EXCEPT ![v.region + 1].temperature_tenths_c =
                                    clamp_i16(v.value, TEMP_MIN_TENTHS_C, TEMP_MAX_TENTHS_C)]
                          ELSE regions,
                          Tail(list))

RECURSIVE ApplyPrecipitation(_, _)
ApplyPrecipitation(regions, list) ==
    IF list = <<>> THEN regions
    ELSE LET v == Head(list) IN
         ApplyPrecipitation(IF InRange(regions, v.region)
                            THEN [regions EXCEPT ![v.region + 1].precipitation_mm =
                                      clamp_u16(v.value, 0, PRECIP_MAX_MM)]
                            ELSE regions,
                            Tail(list))

RECURSIVE ApplyAlbedo(_, _)
ApplyAlbedo(regions, list) ==
    IF list = <<>> THEN regions
    ELSE LET v == Head(list) IN
         ApplyAlbedo(IF InRange(regions, v.region)
                     THEN [regions EXCEPT ![v.region + 1].albedo_milli =
                               clamp_u16(v.value, 0, ALBEDO_MAX)]
                     ELSE regions,
                     Tail(list))

RECURSIVE ApplyFreshwaterFlux(_, _)
ApplyFreshwaterFlux(regions, list) ==
    IF list = <<>> THEN regions
    ELSE LET v == Head(list) IN
         ApplyFreshwaterFlux(IF InRange(regions, v.region)
                             THEN [regions EXCEPT ![v.region + 1].freshwater_flux_tenths_mm =
                                       clamp_u16(v.value, 0, FRESHWATER_FLUX_MAX)]
                             ELSE regions,
                             Tail(list))

RECURSIVE ApplyIceMass(_, _)
ApplyIceMass(regions, list) ==
    IF list = <<>> THEN regions
    ELSE LET v == Head(list) IN
         ApplyIceMass(IF InRange(regions, v.region)
                      THEN [regions EXCEPT ![v.region + 1].ice_mass_kilotons = Max(v.value, 0)]
                      ELSE regions,
                      Tail(list))

RECURSIVE ApplyHazards(_, _)
ApplyHazards(regions, list) ==
    IF list = <<>> THEN regions
    ELSE LET h == Head(list) IN
         ApplyHazards(IF InRange(regions, h.region)
                      THEN [regions EXCEPT ![h.region + 1].hazards =
                                Hazards(clamp_hazard_meter(h.drought),
                                        clamp_hazard_meter(h.flood))]
                      ELSE regions,
                      Tail(list))

\* reduce::apply(world, diff): the world after the call.
apply(world, diff) ==
    LET climate0 == ensure_region_capacity(world.climate, Len(world.regions))
        r1 == ApplyBiome(world.regions, SortByRegion(diff.biome))
        insol == ApplySlots(climate0.last_insolation_tenths,
                            SortByRegion(diff.insolation), I32_MIN, I32_MAX)
        r2 == ApplyWater(r1, SortByRegion(diff.water))
        r3 == ApplySoil(r2, SortByRegion(diff.soil))
        r4 == ApplyElevation(r3, SortByRegion(diff.elevation))
        r5 == ApplyTemperature(r4, SortByRegion(diff.temperature))
        base == ApplySlots(climate0.temperature_baseline_tenths,
                           SortByRegion(diff.temperature_baseline),
                           TEMP_MIN_TENTHS_C, TEMP_MAX_TENTHS_C)
        r6 == ApplyPrecipitation(r5, SortByRegion(diff.precipitation))
        r7 == ApplyAlbedo(r6, SortByRegion(diff.albedo))
        r8 == ApplyFreshwaterFlux(r7, SortByRegion(diff.freshwater_flux))
        r9 == ApplyIceMass(r8, SortByRegion(diff.ice_mass))
        r10 == ApplyHazards(r9, SortByRegion(diff.hazards))
    IN  [world EXCEPT
           !.regions = r10,
           !.climate = [climate0 EXCEPT
                          !.last_insolation_tenths = insol,
                          !.temperature_baseline_tenths = base]]

\* ------------------------------------------------------------------------
\* Arithmetic of the kernels. f64 and f32 quantities are carried as integers
\* in thousandths; the integer results the kernels record are formed with the
\* rounding of the source.
\* ------------------------------------------------------------------------

Abs(v) == IF v < 0 THEN -v ELSE v

\* Integer division of Rust: the quotient is truncated toward zero.
TruncDiv(n, d) == IF n >= 0 THEN n \div d ELSE -((-n) \div d)

\* f64::round of n / d for d > 0: half-way cases go away from zero.
\* Faulty variant of the rounding: the fraction is dropped.
RoundDiv_drops_fraction(n, d) == TruncDiv(n, d)

RoundDiv(n, d) == IF n >= 0 THEN (2 * n + d) \div (2 * d) ELSE -((2 * (-n) + d) \div (2 * d))

\* powf over 0..1: the curve is tabulated at every tenth and read with linear
\* interpolation; table[k + 1] is the power of k / 10 in thousandths.
PowUnit(table, x_milli) ==
    LET x == Clamp(x_milli, 0, 1000)
        k == Min(x \div 100, 9)
    IN  table[k + 1] + ((table[k + 2] - table[k + 1]) * (x - 100 * k)) \div 100

\* closeness.powf(0.8) of astronomy::lat_factor
Pow080 == <<0, 158, 276, 382, 480, 574, 665, 752, 837, 919, 1000>>

\* closeness.powf(0.85) of seasonality::insolation_factor
Pow085 == <<0, 141, 255, 359, 459, 555, 648, 738, 827, 914, 1000>>

\* ------------------------------------------------------------------------
\* rng.rs. A Stream is [id, counter]; words are 16 bits wide instead of 64,
\* the multipliers and increments are the low bits of the source's, and the
\* shifts of mix64 are scaled to the word.
\* ------------------------------------------------------------------------

WORD == 65536

\* The values of a word.
Words == 0..(WORD - 1)

\* a ^ b from the bit of weight p up: a bit of the result is set where the
\* bits of a and b differ.
RECURSIVE XorFrom(_, _, _)
XorFrom(a, b, p) ==
    IF p >= WORD THEN 0
    ELSE p * ((((a \div p) % 2) + ((b \div p) % 2)) % 2) + XorFrom(a, b, 2 * p)

\* a ^ b
Xor == [a \in Words, b \in Words |-> XorFrom(a, b, 1)]

wrapping_mul(a, b) == (a * b) % WORD

wrapping_add(a, b) == (a + b) % WORD

\* z ^ (z >> shift), the shift given as the power of two it divides by.
XorShift == [z \in Words, shift \in Words |-> Xor[z, z \div shift]]

mix64 ==
    [z \in Words |->
        XorShift[wrapping_mul(XorShift[wrapping_mul(XorShift[z, 128], 26041), 64], 4587), 256]]

\* fnv1a64 of the stage names and stream labels the driver and the kernels
\* use, reduced to the word.
stream_label(name) ==
    CASE name = "kernel:climate" -> 63973
      [] name = "kernel:astronomy" -> 27468
      [] name = "kernel:geodynamics" -> 55165
      [] name = "kernel:atmosphere" -> 62826
      [] name = "kernel:cryosphere" -> 41994
      [] name = "CLIMATE::climate_diag" -> 27367
      [] name = "kernel:climate/core" -> 48033
      [] name = "kernel:ecology" -> 64766
      [] name = "kernel:chronicle" -> 4939
      [] name = "CLIMATE.atmo_moisture" -> 19410
      [] name = "CLIMATE.atmo_orography" -> 2013
      [] name = "CLIMATE.atmo_precip_commit" -> 43717

\* Stream { id, counter: mix64(id ^ salt) }
StreamOf(id, salt) == [id |-> id, counter |-> mix64[Xor[id, salt]]]

\* Stream::from(seed, stage, tick)
StreamFrom(seed, stage, tick) ==
    StreamOf(mix64[Xor[Xor[wrapping_add(wrapping_mul(seed % WORD, 25647), 10459),
                           wrapping_mul(tick % WORD, 26215)],
                       stream_label(stage)]],
             61333)

\* Stream::derive(&self, label)
\* Faulty variant of derive: the parent's counter is mixed into the child.
derive_from_state(stream, label) ==
    StreamOf(mix64[Xor[Xor[stream.id, stream.counter], mix64[Xor[label % WORD, 4587]]]],
             58809)

derive(stream, label) ==
    StreamOf(mix64[Xor[stream.id, mix64[Xor[label % WORD, 4587]]]], 58809)

\* Stream::next_u64 steps the counter and returns a sample. Sample(stream, k)
\* is the k-th sample (k = 1 for the first call) of a stream nobody has drawn
\* from yet.
Sample(stream, k) ==
    LET s == stream
    IN  mix64[Xor[s.id, (s.counter + k * 31765) % WORD]]

\* Stream::next_f64 in thousandths: a value in [0, 1000).
next_f64(stream, k) == (Sample(stream, k) * 1000) \div WORD

\* Stream::next_signed_unit in thousandths: a value in [-1000, 1000).
next_signed_unit(stream, k) == next_f64(stream, k) * 2 - 1000

\* ------------------------------------------------------------------------
\* Kernels. A kernel operator answers a KernelRun [ok, diff, chronicle,
\* world]: ok is FALSE when the kernel returns Err, world is the world the
\* kernel leaves behind before its diff is committed (the kernels that take
\* &mut World write climate state in place). Chronicle lines are
\* [text, args], the arguments being the values the source formats in.
\* ------------------------------------------------------------------------

KernelRun(diff, chronicle, world) ==
    [ok |-> TRUE, diff |-> diff, chronicle |-> chronicle, world |-> world]

KernelErr(world) ==
    [ok |-> FALSE, diff |-> EmptyDiff, chronicle |-> <<>>, world |-> world]

Line(text, args) == [text |-> text, args |-> args]

\* Position of a cause target among the target strings in lexicographic
\* order: "climate:coupler", then "region:<id>/<what>" by id and what, then
\* the "world:..." targets.
RegionTarget(id, what) ==
    1 + id * 16 +
    (CASE what = "albedo" -> 0 [] what = "biome" -> 1 [] what = "elevation" -> 2
       [] what = "freshwater" -> 3 [] what = "glacier" -> 4 [] what = "humidity" -> 5
       [] what = "ice" -> 6 [] what = "insolation" -> 7 [] what = "permafrost" -> 8
       [] what = "precip" -> 9 [] what = "snowmelt" -> 10 [] what = "soil" -> 11
       [] what = "temperature" -> 12 [] what = "tide" -> 13 [] what = "water" -> 14)

WorldTarget(what) ==
    CASE what = "climate:coupler" -> 0
      [] what = "world:astronomy" -> 100000
      [] what = "world:atmosphere" -> 100001
      [] what = "world:sea_level" -> 100002

\* enum Code in declaration order, which is the order derive(Ord) compares
\* by. The five codes after CollapseWarning are used by the atmosphere and
\* cryosphere kernels.
Code(name) ==
    CASE name = "LatitudeBelt" -> 0 [] name = "OrographicLift" -> 1
      [] name = "SeasonalityVariance" -> 2 [] name = "HadleyCell" -> 3
      [] name = "HadleyDrift" -> 4 [] name = "MonsoonOnset" -> 5
      [] name = "RainShadow" -> 6 [] name = "HumidityTransport" -> 7
      [] name = "EnergyBalanceAdjustment" -> 8 [] name = "OrogenyBelt" -> 9
      [] name = "VolcanicAerosolPulse" -> 10 [] name = "SubsidenceDeltas" -> 11
      [] name = "CmeEvent" -> 12 [] name = "InsolationGradient" -> 13
      [] name = "ObliquityShift" -> 14 [] name = "PrecessionPhase" -> 15
      [] name = "SolarCyclePeak" -> 16 [] name = "TideNeap" -> 17
      [] name = "TideSpring" -> 18 [] name = "SoilFertilityLow" -> 19
      [] name = "DroughtFlag" -> 20 [] name = "FloodFlag" -> 21
      [] name = "AlbedoFeedback" -> 22 [] name = "GlacierMassBalance" -> 23
      [] name = "FreshwaterPulse" -> 24 [] name = "EraEnd" -> 25
      [] name = "StagnationWarning" -> 26 [] name = "CollapseWarning" -> 27
      [] name = "SeasonalShift" -> 28 [] name = "PermafrostThaw" -> 29
      [] name = "SnowmeltSurge" -> 30 [] name = "IceMassVariation" -> 31
      [] name = "SeaLevelContribution" -> 32

\* The check every region loop opens with: region.index() == index.
RegionIdsMatch(world) ==
    \A i \in 1..Len(world.regions) : world.regions[i].id = i - 1

\* seasonality::seasonal_scalar: the sine of the phase of the tick in the
\* four-tick season, in thousandths.
seasonal_scalar(tick) ==
    CASE tick % 4 = 0 -> 0 [] tick % 4 = 1 -> 1000 [] tick % 4 = 2 -> 0 [] tick % 4 = 3 -> -1000

\* has_seasonal_variation(seasonal_scalar(tick)): the series gives exactly 0
\* only for phase 0.
ScalarVaries(tick) == tick % 4 # 0

\* (1.0 + SEASONAL_INSOLATION_AMPLITUDE * scalar).clamp(..), in thousandths
seasonal_bias(tick) == Clamp(1000 + (180 * seasonal_scalar(tick)) \div 1000, 820, 1180)

\* astronomy::lat_factor, in thousandths
lat_factor(latitude_deg) ==
    PowUnit(Pow080, (Max(90 - Abs(latitude_deg), 0) * 1000) \div 90)

\* --- kernels/astronomy.rs ---

\* The draws and derived factors astronomy::update makes before its loop.
AstronomyContext(world, rng) ==
    LET obliquity_delta == (next_signed_unit(rng, 1) * 350) \div 1000
        position == next_f64(rng, 3)
        lunar_wave == next_f64(rng, 4) * 2 - 1000
        amplitude == 1000 + (position - 500) \div 10
        bias == seasonal_bias(world.tick + 1)
    IN  [obliquity_delta |-> obliquity_delta,
         precession_phase |-> (next_f64(rng, 2) * 360) \div 1000,
         solar_cycle_index |-> (position * 25) \div 1000,
         lunar_wave |-> lunar_wave,
         \* SOLAR_CONSTANT_WM2 * solar_cycle_amplitude * seasonal_bias, tenths
         solar_tenths |-> (((13610 * amplitude) \div 1000) * bias) \div 1000,
         \* obliquity_deg / OBLIQUITY_BASE_DEG, thousandths
         tilt |-> ((23440 + obliquity_delta) * 1000) \div 23440]

\* to_tenths(insolation_wm2) of one region
InsolationTenths(ctx, latitude_deg) ==
    RoundDiv(ctx.solar_tenths *
                 (350 + (((650 * lat_factor(latitude_deg)) \div 1000) * ctx.tilt) \div 1000),
             1000)

\* to_tenths(tide_envelope_m) of one region
TideTenths(ctx, latitude_deg) ==
    RoundDiv((1200 + 2 * lat_factor(latitude_deg)) * (1000 + ctx.lunar_wave \div 4), 100000)

\* The body of the region loop of astronomy::update.
RECURSIVE AstronomyLoop(_, _, _, _)
AstronomyLoop(world, ctx, index, diff) ==
    IF index >= Len(world.regions) THEN diff
    ELSE LET region == world.regions[index + 1]
             insolation == InsolationTenths(ctx, region.latitude_deg)
             d1 == record_insolation(diff, index, insolation)
             d2 == record_cause(d1, Entry(RegionTarget(region.id, "insolation"),
                                          Code("InsolationGradient"),
                                          Abs(ctx.solar_tenths - insolation)))
             d3 == record_tide_envelope(d2, index, TideTenths(ctx, region.latitude_deg))
             d4 == record_cause(d3, Entry(RegionTarget(region.id, "tide"),
                                          IF ctx.lunar_wave >= 0 THEN Code("TideSpring")
                                          ELSE Code("TideNeap"),
                                          ctx.lunar_wave))
         IN  AstronomyLoop(world, ctx, index + 1, d4)

\* astronomy::update
AstronomyUpdate(world, rng) ==
    LET ctx == AstronomyContext(world, rng)
        d1 == record_cause(EmptyDiff, Entry(WorldTarget("world:astronomy"),
                                            Code("ObliquityShift"), ctx.obliquity_delta))
        d2 == record_cause(d1, Entry(WorldTarget("world:astronomy"),
                                     Code("PrecessionPhase"), ctx.precession_phase))
        d3 == record_cause(d2, Entry(WorldTarget("world:astronomy"),
                                     Code("SolarCyclePeak"), ctx.solar_cycle_index))
    IN  IF ~RegionIdsMatch(world) THEN KernelErr(world)
        ELSE KernelRun(AstronomyLoop(world, ctx, 0, d3),
                       <<Line("Axial tilt shifted",
                              <<ctx.obliquity_delta, ctx.precession_phase,
                                IF ctx.lunar_wave >= 0 THEN 1 ELSE 0>>)>>,
                       world)

\* --- kernels/geodynamics.rs ---

clamp_elevation(value) == Clamp(value, -1000, 4000)

\* The neighbours of (x, y) inside the grid, as region indices, in the order
\* of NEIGHBOR_OFFSETS.
NeighborIndices(world, x, y) ==
    LET offsets == <<<<-1, 0>>, <<1, 0>>, <<0, -1>>, <<0, 1>>>>
        inside == SelectSeq(offsets, LAMBDA o :
                      /\ x + o[1] >= 0 /\ x + o[1] < world.width
                      /\ y + o[2] >= 0 /\ y + o[2] < world.height
                      /\ (y + o[2]) * world.width + (x + o[1]) < Len(world.regions))
    IN  [k \in 1..Len(inside) |-> (y + inside[k][2]) * world.width + (x + inside[k][1])]

RECURSIVE RecordNeighbors(_, _, _, _)
RecordNeighbors(world, diff, neighbors, neighbor_delta) ==
    IF neighbors = <<>> THEN diff
    ELSE RecordNeighbors(
             world,
             record_elevation(diff, Head(neighbors),
                 clamp_elevation(saturating_add(world.regions[Head(neighbors) + 1].elevation_m,
                                                neighbor_delta))),
             Tail(neighbors), neighbor_delta)

\* The body of the region loop of geodynamics::update; acc is [diff,
\* chronicle].
RECURSIVE GeodynamicsLoop(_, _, _, _)
GeodynamicsLoop(world, rng, index, acc) ==
    IF index >= Len(world.regions) THEN acc
    ELSE LET region == world.regions[index + 1]
             region_rng == derive(rng, region.id)
             uplift == Sample(region_rng, 2) % 2 = 0
             magnitude_m == RoundDiv(next_f64(region_rng, 3) * 90 + 10000, 1000)
             primary_delta == IF uplift THEN magnitude_m ELSE -magnitude_m
             d1 == record_elevation(acc.diff, index,
                       clamp_elevation(saturating_add(region.elevation_m, primary_delta)))
             d2 == record_cause(d1, Entry(RegionTarget(region.id, "elevation"),
                                          IF uplift THEN Code("OrogenyBelt")
                                          ELSE Code("SubsidenceDeltas"),
                                          primary_delta))
             neighbor_delta == Clamp(TruncDiv(primary_delta, 2), -50, 50)
             d3 == IF neighbor_delta # 0
                   THEN RecordNeighbors(world, d2, NeighborIndices(world, region.x, region.y),
                                        neighbor_delta)
                   ELSE d2
             d4 == record_cause(d3, Entry(WorldTarget("world:atmosphere"),
                                          Code("VolcanicAerosolPulse"),
                                          next_f64(region_rng, 4) \div 20 + 10))
         IN  IF Sample(region_rng, 1) % 1000 # 0
             THEN GeodynamicsLoop(world, rng, index + 1, acc)
             ELSE GeodynamicsLoop(world, rng, index + 1,
                      [diff |-> d4,
                       chronicle |-> Append(acc.chronicle,
                           Line("Volcanic event", <<region.id, primary_delta>>))])

\* geodynamics::update
GeodynamicsUpdate(world, rng) ==
    IF ~RegionIdsMatch(world) THEN KernelErr(world)
    ELSE LET acc == GeodynamicsLoop(world, rng, 0, [diff |-> EmptyDiff, chronicle |-> <<>>])
         IN  KernelRun(acc.diff, acc.chronicle, world)

\* --- kernels/atmosphere: seasonality.rs, humidity.rs, orography.rs,
\* --- precipitation.rs, mod.rs ---

\* seasonality::compute: hadley_lat_shift in whole degrees.
hadley_lat_shift(tick) == (5 * seasonal_scalar(tick)) \div 1000

\* seasonality::hadley_strength, in thousandths
hadley_strength(latitude_deg) ==
    IF Abs(latitude_deg) >= 30 THEN 0 ELSE 1000 - (Abs(latitude_deg) * 1000) \div 30

\* seasonality::insolation_factor, in thousandths
insolation_factor(latitude_deg) ==
    PowUnit(Pow085, (Max(90 - Abs(latitude_deg), 0) * 1000) \div 90)

\* fixed::resource_ratio, in thousandths
resource_ratio(value, max) ==
    LET m == IF max = 0 THEN 1 ELSE max IN (Min(value, m) * 1000) \div m

\* climate.last_insolation_tenths.get(index).copied().unwrap_or(0) and its
\* like
GetOr0(vec, index) == IF InRange(vec, index) THEN vec[index + 1] ELSE 0

\* humidity::sample: humidity in tenths of a percent, by region.
HumiditySample(world, stream) ==
    [i \in 1..Len(world.regions) |->
        LET region == world.regions[i]
            water_ratio == resource_ratio(region.water, WATER_MAX)
            precip_ratio == Clamp(region.precipitation_mm, 0, 5000) \div 5
            insolation_ratio ==
                Clamp(GetOr0(world.climate.last_insolation_tenths, i - 1) \div 16, 0, 1000)
            transport_driver ==
                (450 * water_ratio + 400 * precip_ratio + 150 * (1000 - insolation_ratio)) \div 1000
            jitter == TruncDiv(next_signed_unit(derive(stream, i - 1), 1) * 30, 1000)
        IN  Clamp(transport_driver + jitter, 0, 1000)]

\* orography::prevailing_wind: the x component (the y component is 0).
prevailing_wind(latitude_deg) ==
    IF Abs(latitude_deg) < 30 THEN -1 ELSE IF Abs(latitude_deg) < 60 THEN 1 ELSE -1

\* orography::region_index_at: the index, or -1 for None.
region_index_at(world, x, y) ==
    IF x < 0 \/ y < 0 \/ x >= world.width \/ y >= world.height THEN -1
    ELSE LET idx == y * world.width + x
             hits == {i \in 1..Len(world.regions) :
                         world.regions[i].x = x /\ world.regions[i].y = y}
         IN  IF idx + 1 \in hits THEN idx
             ELSE IF hits = {} THEN -1
             ELSE (CHOOSE i \in hits : \A j \in hits : i <= j) - 1

\* The body of the region loop of orography::apply; eff carries the humidity
\* vector and the four effect vectors (multipliers in thousandths, gradients
\* in metres).
RECURSIVE OrographyLoop(_, _, _, _)
OrographyLoop(world, stream, index, eff) ==
    IF index >= Len(world.regions) THEN eff
    ELSE LET region == world.regions[index + 1]
             wind_dx == prevailing_wind(region.latitude_deg)
             effect_rng == derive(stream, index)
             upwind_index == region_index_at(world, region.x - wind_dx, region.y)
             gradient == IF upwind_index < 0 THEN 0
                         ELSE region.elevation_m - world.regions[upwind_index + 1].elevation_m
             random_factor == 850 + (next_f64(effect_rng, 1) * 300) \div 1000
             lift == (((gradient * 250) \div 1000) * random_factor) \div 1000
             multiplier == Clamp(1000 + (lift * 800) \div 1000, 1000, 3000)
             lifted == [eff EXCEPT
                          !.humidity[index + 1] = Clamp(@ + lift, 0, 1000),
                          !.precip_multipliers[index + 1] = (@ * multiplier) \div 1000,
                          !.lift_gradients[index + 1] = gradient,
                          !.lift_multipliers[index + 1] =
                              (eff.precip_multipliers[index + 1] * multiplier) \div 1000]
             downwind_index == region_index_at(world, region.x + wind_dx, region.y)
             dryness == Clamp((gradient * (180 + (next_f64(effect_rng, 2) * 120) \div 1000))
                                  \div 1000, 0, 750)
             rain_multiplier == Clamp(1000 - (dryness * 650) \div 1000, 200, 1000)
             shadowed == [lifted EXCEPT
                            !.humidity[downwind_index + 1] =
                                Clamp(RoundDiv(@ * (1000 - dryness), 1000), 0, 1000),
                            !.precip_multipliers[downwind_index + 1] =
                                (@ * rain_multiplier) \div 1000,
                            !.rain_shadow_factors[downwind_index + 1] = Max(@, dryness)]
         IN  OrographyLoop(world, stream, index + 1,
                 IF upwind_index < 0 \/ gradient < 250 THEN eff
                 ELSE IF downwind_index < 0 THEN lifted
                 ELSE shadowed)

\* orography::apply
OrographyApply(world, stream, humidity) ==
    OrographyLoop(world, stream, 0,
        [humidity |-> humidity,
         precip_multipliers |-> [i \in 1..Len(world.regions) |-> 1000],
         lift_gradients |-> [i \in 1..Len(world.regions) |-> 0],
         lift_multipliers |-> [i \in 1..Len(world.regions) |-> 1000],
         rain_shadow_factors |-> [i \in 1..Len(world.regions) |-> 0]])

\* (insolation_factor(latitude) * insolation_bias).clamp(0.0, 1.2)
InsolationOf(latitude_deg, insolation_bias) ==
    Clamp((insolation_factor(latitude_deg) * insolation_bias) \div 1000, 0, 1200)

\* precipitation::compute_temperature_tenths
compute_temperature_tenths(latitude_deg, elevation_m, humidity_ratio, insolation_bias) ==
    RoundDiv(-25000 + 60 * InsolationOf(latitude_deg, insolation_bias)
                 - (Max(elevation_m, 0) * 13) \div 2
                 + (humidity_ratio - 500) * 10,
             100)

\* elevation_km.powf(1.15) in thousandths, tabulated every 500 m up to 4 km.
Pow115(elevation_m) ==
    LET table == <<0, 451, 1000, 1594, 2219, 2868, 3537, 4224, 4925>>
        e == Clamp(elevation_m, 0, 4000)
        k == Min(e \div 500, 7)
    IN  table[k + 1] + ((table[k + 2] - table[k + 1]) * (e - 500 * k)) \div 500

\* precipitation::compute_precip_mm
compute_precip_mm(latitude_deg, elevation_m, humidity_ratio, hadley, insolation_bias) ==
    LET insolation == InsolationOf(latitude_deg, insolation_bias)
        elevation_km == Max(elevation_m, 0)
        lift_bonus == Min(elevation_km * 260, 700000)
        convective == 1000000 + 2200 * ((humidity_ratio * insolation) \div 1000)
        hadley_bonus == 1200 * ((hadley * humidity_ratio) \div 1000)
        humidity_penalty == Max(1000 - humidity_ratio, 0) * 700
        thin_air_penalty == Pow115(elevation_km) * 120
    IN  RoundDiv(convective + hadley_bonus + lift_bonus - humidity_penalty - thin_air_penalty,
                 1000)

\* Faulty variant of the temperature commit: the baseline offset is left out.
CommitTemperature_no_offset(world, index, humidity, tick) ==
    LET region == world.regions[index + 1]
        effective_latitude == Clamp(region.latitude_deg - hadley_lat_shift(tick), -90, 90)
    IN  Clamp(compute_temperature_tenths(effective_latitude, region.elevation_m,
                                         humidity, seasonal_bias(tick)),
              -500, 500)

\* The temperature precipitation::commit settles on for a region.
CommitTemperature(world, index, humidity, tick) ==
    LET region == world.regions[index + 1]
        effective_latitude == Clamp(region.latitude_deg - hadley_lat_shift(tick), -90, 90)
        computed == Clamp(compute_temperature_tenths(effective_latitude, region.elevation_m,
                                                     humidity, seasonal_bias(tick)),
                          -500, 500)
    IN  Clamp(computed + GetOr0(world.climate.temperature_baseline_tenths, index), -500, 500)

\* The precipitation precipitation::commit settles on for a region.
CommitPrecip(world, index, humidity, multiplier, stream, tick) ==
    LET region == world.regions[index + 1]
        effective_latitude == Clamp(region.latitude_deg - hadley_lat_shift(tick), -90, 90)
        base_precip == compute_precip_mm(effective_latitude, region.elevation_m, humidity,
                                         hadley_strength(effective_latitude),
                                         seasonal_bias(tick))
        jitter == TruncDiv(next_f64(derive(stream, index), 1) - 500, 25)
    IN  Clamp(RoundDiv(((base_precip * multiplier) \div 1000) * (1000 + jitter), 1000), 0, 5000)

\* record_cause(Entry::new(target, code, Some(note))) when the condition
\* holds, the diff as it is otherwise.
CauseIf(cond, diff, target, code, note) ==
    IF cond THEN record_cause(diff, Entry(target, Code(code), note)) ELSE diff

\* The body of the region loop of precipitation::commit; acc is [diff,
\* monsoon_regions].
RECURSIVE CommitLoop(_, _, _, _, _, _)
CommitLoop(world, humidity_tenths, orography, stream, index, acc) ==
    IF index >= Len(world.regions) THEN acc
    ELSE LET region == world.regions[index + 1]
             tick == world.tick + 1
             humidity == Clamp(humidity_tenths[index + 1], 0, 1000)
             effective_latitude ==
                 Clamp(region.latitude_deg - hadley_lat_shift(tick), -90, 90)
             hadley == hadley_strength(effective_latitude)
             temperature_tenths == CommitTemperature(world, index, humidity, tick)
             precip_mm == CommitPrecip(world, index, humidity,
                                       orography.precip_multipliers[index + 1], stream, tick)
             monsoon == hadley > 250 /\ humidity >= 600
             d1 == record_humidity(acc.diff, index, humidity)
             d2 == IF region.temperature_tenths_c # temperature_tenths
                   THEN record_temperature(d1, index, temperature_tenths) ELSE d1
             d3 == IF region.precipitation_mm # precip_mm
                   THEN record_precipitation(d2, index, precip_mm) ELSE d2
             d4 == CauseIf(ScalarVaries(tick), d3, RegionTarget(region.id, "temperature"),
                           "SeasonalShift", seasonal_scalar(tick))
             d5 == CauseIf(ScalarVaries(tick), d4, RegionTarget(region.id, "precip"),
                           "SeasonalShift", seasonal_scalar(tick))
             d6 == CauseIf(ScalarVaries(tick), d5, RegionTarget(region.id, "temperature"),
                           "HadleyDrift", hadley_lat_shift(tick))
             d7 == CauseIf(ScalarVaries(tick), d6, RegionTarget(region.id, "precip"),
                           "HadleyDrift", hadley_lat_shift(tick))
             d8 == CauseIf(hadley > 0, d7, RegionTarget(region.id, "temperature"),
                           "HadleyCell", hadley)
             d9 == CauseIf(orography.lift_gradients[index + 1] > 0, d8,
                           RegionTarget(region.id, "precip"), "OrographicLift",
                           orography.lift_gradients[index + 1])
             d10 == CauseIf(orography.rain_shadow_factors[index + 1] > 0, d9,
                            RegionTarget(region.id, "precip"), "RainShadow",
                            orography.rain_shadow_factors[index + 1])
             d11 == CauseIf(TRUE, d10, RegionTarget(region.id, "humidity"),
                            "HumidityTransport",
                            GetOr0(world.climate.last_insolation_tenths, index))
             d12 == CauseIf(monsoon, d11, RegionTarget(region.id, "precip"),
                            "MonsoonOnset", (hadley * humidity) \div 1000)
         IN  CommitLoop(world, humidity_tenths, orography, stream, index + 1,
                 [diff |-> d12,
                  monsoon_regions |-> acc.monsoon_regions + (IF monsoon THEN 1 ELSE 0)])

\* atmosphere::update
AtmosphereUpdate(world, rng) ==
    IF world.regions = <<>> THEN KernelRun(EmptyDiff, <<>>, world)
    ELSE LET moisture_stream == derive(rng, stream_label("CLIMATE.atmo_moisture"))
             orography_stream == derive(rng, stream_label("CLIMATE.atmo_orography"))
             commit_stream == derive(rng, stream_label("CLIMATE.atmo_precip_commit"))
             orography == OrographyApply(world, orography_stream,
                                         HumiditySample(world, moisture_stream))
             acc == CommitLoop(world, orography.humidity, orography, commit_stream, 0,
                               [diff |-> EmptyDiff, monsoon_regions |-> 0])
         IN  KernelRun(acc.diff,
                       <<Line("Hadley cells shifted",
                              <<hadley_lat_shift(world.tick + 1), acc.monsoon_regions,
                                IF acc.monsoon_regions > 0 THEN 0
                                ELSE seasonal_scalar(world.tick + 1)>>)>>,
                       world)

\* --- kernels/cryosphere.rs ---

\* Recorders the cryosphere and coupler kernels call on the diff and the
\* lists they fill; each keeps one value per region or slot like the scalar
\* recorders of diff.rs.
record_permafrost_active(d, region_index, value) ==
    [d EXCEPT !.permafrost_active = set_scalar_value(@, region_index, value)]

record_melt_pulse(d, region_index, value) ==
    [d EXCEPT !.melt_pulse = set_scalar_value(@, region_index, value)]

record_temperature_baseline(d, region_index, value) ==
    [d EXCEPT !.temperature_baseline = set_scalar_value(@, region_index, value)]

record_diag_climate(d, region_index, value) ==
    [d EXCEPT !.diag_climate = set_scalar_value(@, region_index, value)]

\* record_diagnostic(key, value); the keys are kept as 0 for
\* "albedo_anomaly_milli" and 1 for "energy_balance".
record_diagnostic(d, key, value) ==
    [d EXCEPT !.diagnostics = set_scalar_value(@, key, value)]

\* active_layer_depth over PERMAFROST_ACTIVE_TABLE
active_layer_depth(temp_tenths) ==
    Clamp(CASE temp_tenths <= -400 -> 30
            [] temp_tenths > -400 /\ temp_tenths <= -250 -> 55
            [] temp_tenths > -250 /\ temp_tenths <= -150 -> 80
            [] temp_tenths > -150 /\ temp_tenths <= -50 -> 110
            [] temp_tenths > -50 /\ temp_tenths <= 50 -> 160
            [] temp_tenths > 50 /\ temp_tenths <= 150 -> 210
            [] temp_tenths > 150 /\ temp_tenths <= 250 -> 260
            [] temp_tenths > 250 -> 300,
          0, 300)

\* Faulty variant of the albedo step: the albedo goes to the biased value at
\* once, whatever the distance.
NextAlbedo_uncapped(existing_albedo, coverage, latitude_deg, albedo_noise, thaw_delta) ==
    LET latitude_weight == Clamp((Abs(latitude_deg) * 1000) \div 90, 0, 1000)
        raw_albedo == Clamp(RoundDiv(100000 + 900 * coverage + 40 * latitude_weight
                                         + albedo_noise * 10, 1000),
                            100, ALBEDO_MAX)
        thaw_bias == Clamp(TruncDiv(thaw_delta, 5), -20, 20)
    IN  Clamp(raw_albedo - thaw_bias, 100, ALBEDO_MAX)

\* The albedo the cryosphere settles on for a region: raw_albedo from ice
\* coverage, latitude and noise, biased by the thaw, one step of at most 20
\* from the existing albedo, clamped to ALBEDO_FLOOR..ALBEDO_MAX.
NextAlbedo(existing_albedo, coverage, latitude_deg, albedo_noise, thaw_delta) ==
    LET latitude_weight == Clamp((Abs(latitude_deg) * 1000) \div 90, 0, 1000)
        raw_albedo == Clamp(RoundDiv(100000 + 900 * coverage + 40 * latitude_weight
                                         + albedo_noise * 10, 1000),
                            100, ALBEDO_MAX)
        thaw_bias == Clamp(TruncDiv(thaw_delta, 5), -20, 20)
        biased_albedo == Clamp(raw_albedo - thaw_bias, 100, ALBEDO_MAX)
    IN  Clamp(existing_albedo + Clamp(biased_albedo - existing_albedo, -20, 20),
              100, ALBEDO_MAX)

\* Lines 88-97: the active layer is recorded when it moved, with its cause
\* when it deepened.
NotePermafrost(d, region, index, active_layer_cm, previous_active_layer) ==
    IF active_layer_cm # previous_active_layer
    THEN CauseIf(active_layer_cm - previous_active_layer > 0,
                 record_permafrost_active(d, index, active_layer_cm),
                 RegionTarget(region.id, "permafrost"), "PermafrostThaw", active_layer_cm)
    ELSE d

\* Lines 124-130: a melt pulse of at least one millimetre is recorded with
\* its cause.
NoteSnowmelt(d, region, index, melt_pulse_mm) ==
    IF melt_pulse_mm > 0
    THEN CauseIf(TRUE, record_melt_pulse(d, index, melt_pulse_mm),
                 RegionTarget(region.id, "snowmelt"), "SnowmeltSurge", melt_pulse_mm)
    ELSE d

\* Lines 148-159: the rounded ice mass is recorded when it differs from the
\* region's; next_ice_mass is in thousandths of a kiloton.
NoteIce(d, region, index, next_ice_mass) ==
    IF RoundDiv(next_ice_mass, 1000) # region.ice_mass_kilotons
    THEN CauseIf(TRUE, record_ice_mass(d, index, RoundDiv(next_ice_mass, 1000)),
                 RegionTarget(region.id, "ice"), "IceMassVariation",
                 next_ice_mass - region.ice_mass_kilotons * 1000)
    ELSE d

\* Lines 178-185
NoteAlbedo(d, region, index, next_albedo) ==
    IF next_albedo # region.albedo_milli
    THEN CauseIf(TRUE, record_albedo(d, index, next_albedo),
                 RegionTarget(region.id, "albedo"), "AlbedoFeedback", next_albedo)
    ELSE d

\* Lines 199-207
NoteFreshwater(d, region, index, freshwater_clamped) ==
    CauseIf(freshwater_clamped > 0,
            IF freshwater_clamped # region.freshwater_flux_tenths_mm
            THEN record_freshwater_flux(d, index, freshwater_clamped) ELSE d,
            RegionTarget(region.id, "freshwater"), "FreshwaterPulse", freshwater_clamped)

\* What one pass of the region loop leaves behind, given the quantities the
\* pass has computed: snowpack (after the melt), actual_melt, mass_balance
\* and melt_total are in thousandths of a millimetre, next_ice_mass in
\* thousandths of a kiloton.
CryosphereSettle(acc, region, index, active_layer_cm, snowpack, actual_melt, mass_balance,
                 next_ice_mass, albedo_noise, melt_total, freshwater_clamped) ==
    [diff |->
         NoteFreshwater(
             CauseIf(Abs(mass_balance) >= 100,
                     NoteAlbedo(
                         NoteIce(
                             NoteSnowmelt(
                                 NotePermafrost(acc.diff, region, index, active_layer_cm,
                                                  acc.climate.permafrost_active_cm[index + 1]),
                                 region, index, RoundDiv(actual_melt, 1000)),
                             region, index, next_ice_mass),
                         region, index,
                         NextAlbedo(region.albedo_milli,
                                    IF next_ice_mass <= 0 THEN 0
                                    ELSE Min(next_ice_mass \div 60000, 1000),
                                    region.latitude_deg, albedo_noise,
                                    active_layer_cm
                                        - acc.climate.permafrost_active_cm[index + 1])),
                     RegionTarget(region.id, "glacier"), "GlacierMassBalance", mass_balance),
             region, index, freshwater_clamped),
     climate |-> [acc.climate EXCEPT
                    !.permafrost_active_cm[index + 1] = active_layer_cm,
                    !.snowpack_mm[index + 1] = RoundDiv(snowpack, 1000)],
     ice_updates |->
         acc.ice_updates
             + (IF RoundDiv(next_ice_mass, 1000) # region.ice_mass_kilotons THEN 1 ELSE 0),
     freshwater_regions |->
         acc.freshwater_regions + (IF freshwater_clamped > 0 THEN 1 ELSE 0),
     snowmelt_regions |->
         acc.snowmelt_regions + (IF RoundDiv(actual_melt, 1000) > 0 THEN 1 ELSE 0),
     contributing_regions |->
         acc.contributing_regions + (IF melt_total > 0 THEN 1 ELSE 0),
     total_melt |-> acc.total_melt + melt_total]

\* Lines 111-123 and 143-147, 195-198: the melt taken from the snowpack, the
\* ice mass and the freshwater flux, from the snowpack after accumulation and
\* the mass balance.
CryosphereMelt(acc, region, index, active_layer_cm, snowpack, actual_melt, mass_balance,
               albedo_noise) ==
    CryosphereSettle(acc, region, index, active_layer_cm,
                     Max(snowpack - actual_melt, 0), actual_melt, mass_balance,
                     Clamp(region.ice_mass_kilotons * 1000 + TruncDiv(mass_balance * 13, 2),
                           0, 200000000),
                     albedo_noise,
                     Max(-mass_balance, 0) + actual_melt,
                     Clamp(RoundDiv(Max(-mass_balance, 0) + actual_melt, 100),
                           0, FRESHWATER_FLUX_MAX))

\* Lines 99-109: the snowpack after accumulation, in thousandths of a
\* millimetre.
SnowAccumulated(region, snowpack_mm) ==
    Clamp(snowpack_mm * 1000
              + (IF region.temperature_tenths_c <= 0
                 THEN region.precipitation_mm * 600
                          + Max(-region.temperature_tenths_c, 0) * 140
                 ELSE 0),
          0, 4500000)

\* Lines 111-119: the melt the snowpack yields.
ActualMelt(region, snowpack) ==
    Min(Min(Max(IF region.temperature_tenths_c > 0
                THEN region.temperature_tenths_c * 480 + region.precipitation_mm * 120
                ELSE 0,
                0),
            snowpack),
        1000000)

\* Lines 134-140: the glacier mass balance, in thousandths of a millimetre;
\* melt_noise is the draw of line 138.
MassBalance(region, melt_noise) ==
    (region.precipitation_mm * 20
         + (region.precipitation_mm * Max(-region.temperature_tenths_c, 0) * 10) \div 12)
        - (Max(region.temperature_tenths_c, 0) * (6000 + TruncDiv(melt_noise * 3, 2))) \div 10

\* The quantities of one pass that need the snowpack after accumulation.
CryosphereSnow(acc, region, index, active_layer_cm, snowpack, mass_balance, albedo_noise) ==
    CryosphereMelt(acc, region, index, active_layer_cm, snowpack,
                   ActualMelt(region, snowpack), mass_balance, albedo_noise)

\* One pass of the region loop of cryosphere::update; acc carries the diff,
\* the climate state written in place and the counters. The stream is drawn
\* from twice in every pass.
CryosphereRegion(world, rng, index, acc) ==
    CryosphereSnow(acc, world.regions[index + 1], index,
        active_layer_depth(
            Clamp(world.regions[index + 1].temperature_tenths_c
                      + GetOr0(acc.climate.temperature_baseline_tenths, index),
                  -32768, 32767)),
        SnowAccumulated(world.regions[index + 1], acc.climate.snowpack_mm[index + 1]),
        MassBalance(world.regions[index + 1], next_signed_unit(rng, 2 * index + 1)),
        next_signed_unit(rng, 2 * index + 2))

RECURSIVE CryosphereLoop(_, _, _, _)
CryosphereLoop(world, rng, index, acc) ==
    IF index >= Len(world.regions) THEN acc
    ELSE CryosphereLoop(world, rng, index + 1, CryosphereRegion(world, rng, index, acc))

\* cryosphere::update(&mut World, ..): always Ok.
CryosphereUpdate(world, rng) ==
    LET acc == CryosphereLoop(world, rng, 0,
                   [diff |-> EmptyDiff,
                    climate |-> ensure_region_capacity(world.climate, Len(world.regions)),
                    ice_updates |-> 0, freshwater_regions |-> 0, snowmelt_regions |-> 0,
                    contributing_regions |-> 0, total_melt |-> 0])
        sea_level_delta_mm == RoundDiv(acc.total_melt, 1000)
        active == acc.ice_updates > 0 \/ acc.freshwater_regions > 0 \/ sea_level_delta_mm # 0
    IN  KernelRun(
            CauseIf(sea_level_delta_mm # 0, acc.diff, WorldTarget("world:sea_level"),
                    "SeaLevelContribution", sea_level_delta_mm),
            <<Line("Active layer deepened; surface darkened slightly.",
                   IF active
                   THEN <<acc.ice_updates, acc.freshwater_regions, acc.contributing_regions>>
                   ELSE <<>>)>>
                \o (IF acc.snowmelt_regions > 0
                    THEN <<Line("Warm spell released highland snow into streams.", <<>>)>>
                    ELSE <<>>),
            [world EXCEPT
               !.climate = add_sea_level_equivalent_mm(acc.climate, sea_level_delta_mm)])

\* --- kernels/coupler.rs ---

\* The body of the region loop of reconcile_inner; acc carries the diff, the
\* climate state written in place and the running totals.
RECURSIVE CouplerLoop(_, _, _)
CouplerLoop(world, index, acc) ==
    IF index >= Len(world.regions) THEN acc
    ELSE LET current_albedo == world.regions[index + 1].albedo_milli
             slot == acc.climate.last_albedo_milli[index + 1]
             previous_albedo == IF slot = 0 THEN current_albedo ELSE slot
             anomaly == current_albedo - previous_albedo
             bounded_adjust == Clamp(RoundDiv(-anomaly, 120), -1, 1)
             previous == acc.climate.temperature_baseline_tenths[index + 1]
             updated == Clamp(previous + bounded_adjust, -120, 120)
             snapshot == [acc.climate EXCEPT !.last_albedo_milli[index + 1] = current_albedo]
         IN  CouplerLoop(world, index + 1,
                 IF anomaly = 0 THEN [acc EXCEPT !.climate = snapshot]
                 ELSE IF updated = previous
                 THEN [acc EXCEPT !.climate = snapshot,
                                  !.adjusted_regions = @ + 1,
                                  !.total_anomaly = @ + anomaly]
                 ELSE [diff |-> record_temperature_baseline(acc.diff, index, updated),
                       climate |-> [snapshot EXCEPT
                                      !.temperature_baseline_tenths[index + 1] = updated],
                       adjusted_regions |-> acc.adjusted_regions + 1,
                       total_anomaly |-> acc.total_anomaly + anomaly,
                       total_adjust |-> acc.total_adjust + (updated - previous)])

\* coupler::reconcile_with_world -> reconcile -> reconcile_inner. The world
\* context is always set when reconcile reads it, so the result is Ok.
\* Faulty variant of the coupler: the adjustment is written into the
\* temperature of the tick in progress.
reconcile_with_world_warms(world, atmos, cryo) ==
    KernelRun(IF Len(world.regions) = 0 THEN EmptyDiff
              ELSE record_temperature(EmptyDiff, 0,
                                      world.regions[1].temperature_tenths_c + 1),
              <<>>, world)

reconcile_with_world(world, atmos, cryo) ==
    IF cryo.albedo = <<>> \/ Len(world.regions) = 0
    THEN KernelRun(EmptyDiff, <<>>, world)
    ELSE LET acc == CouplerLoop(world, 0,
                        [diff |-> EmptyDiff,
                         climate |-> ensure_region_capacity(world.climate, Len(world.regions)),
                         adjusted_regions |-> 0, total_anomaly |-> 0, total_adjust |-> 0])
             report == acc.adjusted_regions > 0
                           /\ (acc.diff.temperature_baseline # <<>> \/ acc.total_anomaly # 0)
             mean_anomaly == RoundDiv(acc.total_anomaly, Max(acc.adjusted_regions, 1))
             mean_adjust == RoundDiv(acc.total_adjust, Max(acc.adjusted_regions, 1))
             d1 == record_diagnostic(acc.diff, 0, mean_anomaly)
             d2 == record_diagnostic(d1, 1, mean_adjust)
             d3 == record_cause(d2, Entry(WorldTarget("climate:coupler"),
                                          Code("AlbedoFeedback"), mean_anomaly))
             d4 == record_cause(d3, Entry(WorldTarget("climate:coupler"),
                                          Code("EnergyBalanceAdjustment"), mean_adjust))
         IN  KernelRun(IF report THEN d4 ELSE acc.diff, <<>>,
                       [world EXCEPT !.climate = acc.climate])

\* --- kernels/climate_diag.rs ---

RECURSIVE SumOver(_, _)
SumOver(regions, field) ==
    IF regions = <<>> THEN 0 ELSE Head(regions)[field] + SumOver(Tail(regions), field)

\* climate_diag::update: always Ok.
ClimateDiagUpdate(world) ==
    LET n == Len(world.regions)
        composite ==
            (450 * SumOver(world.regions, "temperature_tenths_c")
                 + 50 * (SumOver(world.regions, "precipitation_mm") - 1500 * n)
                 + 30 * (SumOver(world.regions, "water") - 5000 * n)
                 + 50 * (SumOver(world.regions, "albedo_milli") - 450 * n)) \div n
            + 50 * Clamp(world.climate.sea_level_equivalent_mm, -1000000, 1000000)
        clamped == Clamp(RoundDiv(composite, 1000), -1000, 1000)
    IN  KernelRun(record_diag_climate(EmptyDiff, 0, IF n = 0 THEN 0 ELSE clamped),
                  <<Line("Climate diagnostics stable; no anomalies detected.", <<>>)>>,
                  world)

\* --- kernels/climate: classification.rs, diagnostics.rs, mod.rs ---

\* LatitudeBelt::from_latitude: 0 Equatorial .. 4 Polar
LatitudeBelt(latitude_deg) ==
    LET lat == Abs(latitude_deg) IN
    IF lat < 15 THEN 0 ELSE IF lat < 30 THEN 1 ELSE IF lat < 45 THEN 2
    ELSE IF lat < 60 THEN 3 ELSE 4

\* classification::dryness_score, in thousandths
dryness_score(region, seasonal_shift) ==
    Clamp((600 * (1000 - resource_ratio(region.water, WATER_MAX))
               + 300 * Clamp(region.elevation_m \div 3, 0, 1000)
               + 100 * seasonal_shift) \div 1000,
          0, 1000)

\* classification::classify_biome
classify_biome(belt, dryness) ==
    CASE belt = 0 -> (IF dryness < 350 THEN 5 ELSE IF dryness < 650 THEN 3 ELSE 4)
      [] belt = 1 -> (IF dryness < 300 THEN 5 ELSE IF dryness < 600 THEN 2 ELSE 4)
      [] belt = 2 -> (IF dryness < 250 THEN 2 ELSE IF dryness < 600 THEN 1 ELSE 3)
      [] belt = 3 -> (IF dryness < 400 THEN 1 ELSE 0)
      [] belt = 4 -> 0

\* diagnostics::orographic_lift_indicator, in metres
orographic_lift_indicator(world, region) ==
    LET neighbors == NeighborIndices(world, region.x, region.y)
        sum == SumOver([k \in 1..Len(neighbors) |-> world.regions[neighbors[k] + 1]],
                       "elevation_m")
    IN  IF neighbors = <<>> THEN 0
        ELSE Max(region.elevation_m - sum \div Len(neighbors), 0)

\* The body of the region loop of climate::update; acc is [diff, chronicle].
RECURSIVE ClimateLoop(_, _, _, _)
ClimateLoop(world, rng, index, acc) ==
    IF index >= Len(world.regions) THEN acc
    ELSE LET region == world.regions[index + 1]
             belt == LatitudeBelt(region.latitude_deg)
             seasonal_shift == next_signed_unit(derive(rng, region.id), 1)
             biome == classify_biome(belt, dryness_score(region, seasonal_shift))
             d1 == IF biome # region.biome THEN record_biome(acc.diff, region.id, biome)
                   ELSE acc.diff
             d2 == CauseIf(TRUE, d1, RegionTarget(region.id, "biome"), "LatitudeBelt", belt)
             d3 == CauseIf(TRUE, d2, RegionTarget(region.id, "biome"), "SeasonalShift",
                           seasonal_shift)
             d4 == CauseIf(TRUE, d3, RegionTarget(region.id, "biome"), "OrographicLift",
                           orographic_lift_indicator(world, region))
         IN  ClimateLoop(world, rng, index + 1,
                 [diff |-> d4,
                  chronicle |-> IF biome # region.biome
                                THEN Append(acc.chronicle,
                                            Line("Region shifted toward a biome.",
                                                 <<region.id, biome>>))
                                ELSE acc.chronicle])

\* climate::update
ClimateUpdate(world, rng) ==
    IF ~RegionIdsMatch(world) THEN KernelErr(world)
    ELSE LET acc == ClimateLoop(world, rng, 0, [diff |-> EmptyDiff, chronicle |-> <<>>])
         IN  KernelRun(acc.diff, acc.chronicle, world)

\* --- kernels/ecology.rs ---

\* Faulty variant of the blend: the half step is rounded toward zero.
blend_hazard_truncates(previous, target) ==
    IF previous = target THEN clamp_hazard_meter(previous)
    ELSE LET diff == target - previous
             step == IF diff > 0 THEN diff \div 2 ELSE -((-diff) \div 2)
         IN  clamp_hazard_meter(Max(previous + step, 0))

blend_hazard(previous, target) ==
    IF previous = target THEN clamp_hazard_meter(previous)
    ELSE LET diff == target - previous
             step == IF diff > 0 THEN (diff + 1) \div 2 ELSE -(((-diff) + 1) \div 2)
         IN  clamp_hazard_meter(Max(previous + step, 0))

\* profile_for_biome: [water_target, soil_target] in thousandths
profile_for_biome(biome) ==
    CASE biome = 5 -> [water_target |-> 850, soil_target |-> 750]
      [] biome = 4 -> [water_target |-> 200, soil_target |-> 250]
      [] biome = 3 -> [water_target |-> 350, soil_target |-> 400]
      [] biome = 2 -> [water_target |-> 550, soil_target |-> 550]
      [] biome = 1 -> [water_target |-> 400, soil_target |-> 450]
      [] OTHER -> [water_target |-> 250, soil_target |-> 300]

\* The two meter checks ecology::update makes on every region.
MetersWithinMax(world) ==
    \A i \in 1..Len(world.regions) :
        world.regions[i].water <= WATER_MAX /\ world.regions[i].soil <= SOIL_MAX

\* The body of the region loop of ecology::update.
RECURSIVE EcologyLoop(_, _, _, _)
EcologyLoop(world, rng, index, diff) ==
    IF index >= Len(world.regions) THEN diff
    ELSE LET region == world.regions[index + 1]
             profile == profile_for_biome(region.biome)
             water_drift == RoundDiv((profile.water_target
                                          - resource_ratio(region.water, WATER_MAX)) * 200, 1000)
             soil_drift == RoundDiv((profile.soil_target
                                         - resource_ratio(region.soil, SOIL_MAX)) * 150, 1000)
             noise == TruncDiv(next_signed_unit(derive(rng, region.id), 1) * 25, 1000)
             water_delta == Clamp(water_drift + noise, -180, 180)
             noise_half == IF noise >= 0 THEN TruncDiv(noise, 2) ELSE TruncDiv(noise - 1, 2)
             soil_delta == Clamp(soil_drift + noise_half, -120, 120)
             new_water == clamp_u16(region.water + water_delta, 0, WATER_MAX)
             new_soil == clamp_u16(region.soil + soil_delta, 0, SOIL_MAX)
             drought_target == Max(WATER_MAX - new_water, 0)
             flood_target == Max(new_water - (WATER_MAX - 1500), 0)
             drought_level == blend_hazard(region.hazards.drought, drought_target)
             flood_level == blend_hazard(region.hazards.flood, flood_target)
             d1 == IF water_delta # 0 THEN record_water_delta(diff, region.id, water_delta)
                   ELSE diff
             d2 == IF soil_delta # 0 THEN record_soil_delta(d1, region.id, soil_delta) ELSE d1
             d3 == IF drought_level # region.hazards.drought
                       \/ flood_level # region.hazards.flood
                   THEN record_hazard(d2, region.id, drought_level, flood_level) ELSE d2
             d4 == IF drought_level > 2000
                   THEN CauseIf(TRUE, d3, RegionTarget(region.id, "water"), "DroughtFlag",
                                drought_level)
                   ELSE CauseIf(flood_level > 600, d3, RegionTarget(region.id, "water"),
                                "FloodFlag", flood_level)
             d5 == CauseIf(new_soil < 2500, d4, RegionTarget(region.id, "soil"),
                           "SoilFertilityLow", new_soil)
         IN  EcologyLoop(world, rng, index + 1, d5)

\* ecology::update
EcologyUpdate(world, rng) ==
    IF ~RegionIdsMatch(world) \/ ~MetersWithinMax(world) THEN KernelErr(world)
    ELSE KernelRun(EcologyLoop(world, rng, 0, EmptyDiff), <<>>, world)

\* ------------------------------------------------------------------------
\* State
\* ------------------------------------------------------------------------

VARIABLES
    \* --- the tick driver (Spec) ---
    world,        \* the World handed to tick_once
    pc,           \* position of the driver inside tick_once, "idle" between calls
    call,         \* arguments of the call in progress or last made: [seed, tick]
    aggregate_diff, \* tick_once's aggregate_diff
    chronicle,    \* tick_once's chronicle
    atmos_diff,   \* atmosphere_run.diff, kept for the coupler
    cryo_diff,    \* cryosphere_run.diff, kept for the coupler
    result,       \* outcome of the last finished call: "none", "running", "ok" or "err"
    pre,          \* the world as it was when the last call was entered
    calls,        \* number of tick_once calls made so far
    ran,          \* steps of the call in progress or last made, in order:
                  \* [stage, read (the world the step was given), diff,
                  \*  said (the chronicle lines the kernel returned)]
    origin,       \* the world as it was handed over before the first call
    \* --- the Diff algebra (SpecDiff) ---
    focus,        \* the Diff field the record_* calls of this run address
    dself,        \* the receiving diff (self of merge)
    dother,       \* the diff merged in (other of merge)
    log,          \* the record_* calls made on dother, in order
    nself,        \* number of record_* calls made on dself
    self0,        \* dself as it was when merge was called
    phase,        \* "build" while recording, "merged" after merge
    \* --- the reducer on hand-built diffs (SpecApply) ---
    target,       \* the world apply is called on
    pending,      \* the diff under construction (its Vec fields are pub)
    before,       \* target as it was when apply was last called
    applied,      \* the diff apply was last called with
    applies,      \* number of apply calls made
    pushed,       \* number of entries pushed onto diffs so far
    \* --- the coupler's baseline and the next tick's atmosphere (SpecDelay) ---
    control,      \* the world the coupler was not run on
    shifted,      \* the same world with the coupler run on it
    lag,          \* "cryosphere" (tick t, before the coupler), "coupled", "next"
    lag_seed,     \* the seed the ticks are driven with
    control_run,  \* temperature list of the atmosphere diff of tick t+1, control
    shifted_run,  \* the same for the shifted world
    \* --- the sea level accumulator (SpecSea) ---
    ocean,        \* the ClimateState add_sea_level_equivalent_mm is called on
    ocean_was,    \* ocean as it was when the call was made
    ocean_delta,  \* the delta of the last call
    ocean_calls,  \* number of calls made
    \* --- a hazard gauge blended toward zero (SpecHazard) ---
    gauge,        \* the current level
    gauge_trail,  \* the levels so far, the start level first
    \* --- a stream, its samples and its children (SpecStream) ---
    parent,       \* the parent stream as it is now
    fresh,        \* the parent stream as Stream::from built it
    draws,        \* number of next_u64 calls made on the parent
    kids,         \* the derive calls made: [label, at (draws before it), child]
    \* --- one kernel run on a prepared world (SpecCoupler, SpecCryosphere, SpecEcology) ---
    site,         \* the world the kernel is run on
    site_was,     \* site as it was handed to the last run
    site_diff,    \* the diff the last run returned
    site_stage,   \* the kernel that ran last, "none" before the first run
    site_runs     \* number of runs made

tickVars == <<world, pc, call, aggregate_diff, chronicle, atmos_diff, cryo_diff,
              result, pre, calls, ran, origin>>

diffVars == <<focus, dself, dother, log, nself, self0, phase>>

applyVars == <<target, pending, before, applied, applies, pushed>>

delayVars == <<control, shifted, lag, lag_seed, control_run, shifted_run>>

seaVars == <<ocean, ocean_was, ocean_delta, ocean_calls>>

hazardVars == <<gauge, gauge_trail>>

streamVars == <<parent, fresh, draws, kids>>

siteVars == <<site, site_was, site_diff, site_stage, site_runs>>

\* The variables of the specifications other than Spec and SpecDiff.
benchVars == <<applyVars, delayVars, seaVars, hazardVars, streamVars, siteVars>>

\* What the steps of each of those specifications leave alone.
notApply == <<tickVars, diffVars, delayVars, seaVars, hazardVars, streamVars, siteVars>>

notDelay == <<tickVars, diffVars, applyVars, seaVars, hazardVars, streamVars, siteVars>>

notSea == <<tickVars, diffVars, applyVars, delayVars, hazardVars, streamVars, siteVars>>

notHazard == <<tickVars, diffVars, applyVars, delayVars, seaVars, streamVars, siteVars>>

notStream == <<tickVars, diffVars, applyVars, delayVars, seaVars, hazardVars, siteVars>>

notSite == <<tickVars, diffVars, applyVars, delayVars, seaVars, hazardVars, streamVars>>

vars == <<world, pc, call, aggregate_diff, chronicle, atmos_diff, cryo_diff,
          result, pre, calls, ran, origin, focus, dself, dother, log, nself, self0, phase,
          target, pending, before, applied, applies, pushed,
          control, shifted, lag, lag_seed, control_run, shifted_run,
          ocean, ocean_was, ocean_delta, ocean_calls, gauge, gauge_trail,
          parent, fresh, draws, kids,
          site, site_was, site_diff, site_stage, site_runs>>

\* SpecApply at rest.
IdleApply ==
    /\ target = NewWorld(0, 0, 0, <<>>)
    /\ pending = EmptyDiff
    /\ before = NewWorld(0, 0, 0, <<>>)
    /\ applied = EmptyDiff
    /\ applies = 0
    /\ pushed = 0

\* SpecDelay at rest.
IdleDelay ==
    /\ control = NewWorld(0, 0, 0, <<>>)
    /\ shifted = NewWorld(0, 0, 0, <<>>)
    /\ lag = "idle"
    /\ lag_seed = 0
    /\ control_run = <<>>
    /\ shifted_run = <<>>

\* SpecSea at rest.
IdleSea ==
    /\ ocean = from_regions(<<>>)
    /\ ocean_was = from_regions(<<>>)
    /\ ocean_delta = 0
    /\ ocean_calls = 0

\* SpecHazard at rest.
IdleHazard ==
    /\ gauge = 0
    /\ gauge_trail = <<>>

\* SpecStream at rest.
IdleStream ==
    /\ parent = [id |-> 0, counter |-> 0]
    /\ fresh = [id |-> 0, counter |-> 0]
    /\ draws = 0
    /\ kids = <<>>

\* The kernel runs at rest.
IdleSite ==
    /\ site = NewWorld(0, 0, 0, <<>>)
    /\ site_was = NewWorld(0, 0, 0, <<>>)
    /\ site_diff = EmptyDiff
    /\ site_stage = "none"
    /\ site_runs = 0

IdleBench == IdleApply /\ IdleDelay /\ IdleSea /\ IdleHazard /\ IdleStream /\ IdleSite

\* ------------------------------------------------------------------------
\* SpecDiff: record_* calls and merge
\* ------------------------------------------------------------------------

DiffRegionIds == 0..(DiffRegions - 1)

Fields == {"biome", "water", "soil", "insolation", "tide_envelope", "elevation",
           "temperature", "precipitation", "humidity", "albedo",
           "freshwater_flux", "ice_mass", "hazards", "causes", "diag_energy"}

BiomeSamples == {2, 5}

DeltaSamples == {-200, 0, 200}

ScalarSamples == {-600, 320}

HazardSamples == {<<5500, 0>>, <<6000, 200>>}

\* Causes that differ in the target, in the code and in the note alone.
CauseSamples == {Entry(0, 20, 0), Entry(0, 20, 1), Entry(0, 21, 0), Entry(1, 20, 0)}

DiagSamples == {[albedo_anomaly_milli |-> 60, temp_adjust_tenths |-> -1],
                [albedo_anomaly_milli |-> -60, temp_adjust_tenths |-> 1]}

\* A recorded call: the operation, the region and its value(s).
Op(name, region, value) == [op |-> name, region |-> region, value |-> value]

\* The diff after one recorded call.
ApplyOp(d, o) ==
    CASE o.op = "record_biome" -> record_biome(d, o.region, o.value)
      [] o.op = "record_water_delta" -> record_water_delta(d, o.region, o.value)
      [] o.op = "record_soil_delta" -> record_soil_delta(d, o.region, o.value)
      [] o.op = "record_insolation" -> record_insolation(d, o.region, o.value)
      [] o.op = "record_tide_envelope" -> record_tide_envelope(d, o.region, o.value)
      [] o.op = "record_elevation" -> record_elevation(d, o.region, o.value)
      [] o.op = "record_temperature" -> record_temperature(d, o.region, o.value)
      [] o.op = "record_precipitation" -> record_precipitation(d, o.region, o.value)
      [] o.op = "record_humidity" -> record_humidity(d, o.region, o.value)
      [] o.op = "record_albedo" -> record_albedo(d, o.region, o.value)
      [] o.op = "record_freshwater_flux" -> record_freshwater_flux(d, o.region, o.value)
      [] o.op = "record_ice_mass" -> record_ice_mass(d, o.region, o.value)
      [] o.op = "record_hazard" -> record_hazard(d, o.region, o.value[1], o.value[2])
      [] o.op = "record_cause" -> record_cause(d, o.value)
      [] o.op = "record_diag_energy" -> record_diag_energy(d, o.value)

RECURSIVE Replay(_, _)
Replay(d, ops) ==
    IF ops = <<>> THEN d ELSE Replay(ApplyOp(d, Head(ops)), Tail(ops))

\* One record_* call on the receiving diff or on the diff to be merged in.
Record(who, o) ==
    /\ phase = "build"
    /\ IF who = "self"
       THEN /\ nself < MaxSelfOps
            /\ dself' = ApplyOp(dself, o)
            /\ nself' = nself + 1
            /\ UNCHANGED <<dother, log>>
       ELSE /\ Len(log) < MaxOtherOps
            /\ dother' = ApplyOp(dother, o)
            /\ log' = Append(log, o)
            /\ UNCHANGED <<dself, nself>>
    /\ UNCHANGED <<focus, self0, phase>>
    /\ UNCHANGED <<tickVars, benchVars>>

Who == {"self", "other"}

RecordBiome ==
    /\ focus = "biome"
    /\ \E who \in Who, r \in DiffRegionIds, b \in BiomeSamples :
          Record(who, Op("record_biome", r, b))

RecordWaterDelta ==
    /\ focus = "water"
    /\ \E who \in Who, r \in DiffRegionIds, v \in DeltaSamples :
          Record(who, Op("record_water_delta", r, v))

RecordSoilDelta ==
    /\ focus = "soil"
    /\ \E who \in Who, r \in DiffRegionIds, v \in DeltaSamples :
          Record(who, Op("record_soil_delta", r, v))

RecordInsolation ==
    /\ focus = "insolation"
    /\ \E who \in Who, r \in DiffRegionIds, v \in ScalarSamples :
          Record(who, Op("record_insolation", r, v))

RecordTideEnvelope ==
    /\ focus = "tide_envelope"
    /\ \E who \in Who, r \in DiffRegionIds, v \in ScalarSamples :
          Record(who, Op("record_tide_envelope", r, v))

RecordElevation ==
    /\ focus = "elevation"
    /\ \E who \in Who, r \in DiffRegionIds, v \in ScalarSamples :
          Record(who, Op("record_elevation", r, v))

RecordTemperature ==
    /\ focus = "temperature"
    /\ \E who \in Who, r \in DiffRegionIds, v \in ScalarSamples :
          Record(who, Op("record_temperature", r, v))

RecordPrecipitation ==
    /\ focus = "precipitation"
    /\ \E who \in Who, r \in DiffRegionIds, v \in ScalarSamples :
          Record(who, Op("record_precipitation", r, v))

RecordHumidity ==
    /\ focus = "humidity"
    /\ \E who \in Who, r \in DiffRegionIds, v \in ScalarSamples :
          Record(who, Op("record_humidity", r, v))

RecordAlbedo ==
    /\ focus = "albedo"
    /\ \E who \in Who, r \in DiffRegionIds, v \in ScalarSamples :
          Record(who, Op("record_albedo", r, v))

RecordFreshwaterFlux ==
    /\ focus = "freshwater_flux"
    /\ \E who \in Who, r \in DiffRegionIds, v \in ScalarSamples :
          Record(who, Op("record_freshwater_flux", r, v))

RecordIceMass ==
    /\ focus = "ice_mass"
    /\ \E who \in Who, r \in DiffRegionIds, v \in ScalarSamples :
          Record(who, Op("record_ice_mass", r, v))

RecordHazard ==
    /\ focus = "hazards"
    /\ \E who \in Who, r \in DiffRegionIds, h \in HazardSamples :
          Record(who, Op("record_hazard", r, h))

RecordCause ==
    /\ focus = "causes"
    /\ \E who \in Who, c \in CauseSamples :
          Record(who, Op("record_cause", 0, c))

RecordDiagEnergy ==
    /\ focus = "diag_energy"
    /\ \E who \in Who, g \in DiagSamples :
          Record(who, Op("record_diag_energy", 0, g))

\* self.merge(&other)
Merge ==
    /\ phase = "build"
    /\ self0' = dself
    /\ dself' = merge(dself, dother)
    /\ phase' = "merged"
    /\ UNCHANGED <<focus, dother, log, nself>>
    /\ UNCHANGED <<tickVars, benchVars>>

IdleTick ==
    /\ world = NewWorld(0, 0, 0, <<>>)
    /\ pc = "idle"
    /\ call = [seed |-> 0, tick |-> 0]
    /\ aggregate_diff = EmptyDiff
    /\ chronicle = <<>>
    /\ atmos_diff = EmptyDiff
    /\ cryo_diff = EmptyDiff
    /\ result = "none"
    /\ pre = NewWorld(0, 0, 0, <<>>)
    /\ calls = 0
    /\ ran = <<>>
    /\ origin = NewWorld(0, 0, 0, <<>>)

InitDiff ==
    /\ focus \in Fields
    /\ dself = EmptyDiff
    /\ dother = EmptyDiff
    /\ log = <<>>
    /\ nself = 0
    /\ self0 = EmptyDiff
    /\ phase = "build"
    /\ IdleTick
    /\ IdleBench

NextDiff ==
    \/ RecordBiome
    \/ RecordWaterDelta
    \/ RecordSoilDelta
    \/ RecordInsolation
    \/ RecordTideEnvelope
    \/ RecordElevation
    \/ RecordTemperature
    \/ RecordPrecipitation
    \/ RecordHumidity
    \/ RecordAlbedo
    \/ RecordFreshwaterFlux
    \/ RecordIceMass
    \/ RecordHazard
    \/ RecordCause
    \/ RecordDiagEnergy
    \/ Merge

SpecDiff == InitDiff /\ [][NextDiff]_vars

\* ------------------------------------------------------------------------
\* Properties of Diff (SpecDiff)
\* ------------------------------------------------------------------------

\* The per-region lists of a diff, by field.
RegionLists(d) ==
    <<d.biome, d.water, d.soil, d.insolation, d.tide_envelope, d.elevation,
      d.temperature, d.precipitation, d.humidity, d.albedo, d.freshwater_flux,
      d.ice_mass, d.hazards>>

StrictlyIncreasing(list) ==
    \A i \in 1..(Len(list) - 1) : list[i].region < list[i + 1].region

NoZeroDelta(list) == \A i \in 1..Len(list) : list[i].delta # 0

WellFormed(d) ==
    /\ \A k \in 1..Len(RegionLists(d)) : StrictlyIncreasing(RegionLists(d)[k])
    /\ NoZeroDelta(d.water)
    /\ NoZeroDelta(d.soil)

\* C9: after any sequence of record_* calls and merges that starts from an
\* empty diff, every per-region list of the diff is strictly increasing by
\* region index (so no region occurs twice) and neither the water nor the
\* soil list holds an entry whose delta is 0.
C9_ListsSortedNoZero == WellFormed(dself) /\ WellFormed(dother)

\* A merge has just put a lower region in front of an entry the receiver
\* already had, or two deltas of one region have cancelled each other.
C9_Witness ==
    /\ phase = "merged"
    /\ \/ \E k \in 1..Len(RegionLists(dself)) :
              /\ Len(RegionLists(dself)[k]) = 2
              /\ Len(RegionLists(self0)[k]) = 1
              /\ RegionLists(self0)[k][1].region = 1
       \/ self0.water # <<>> /\ dother.water # <<>> /\ dself.water = <<>>

\* The cause list is ordered by (target, code, note).
CausesSorted(causes) ==
    \A i \in 1..(Len(causes) - 1) : CauseCmp(causes[i], causes[i + 1]) <= 0

\* The list with the cause placed behind every entry that is not greater.
InsertAfterRun(causes, cause) ==
    VecInsert(causes,
              Cardinality({i \in 1..Len(causes) : CauseCmp(causes[i], cause) <= 0}),
              cause)

\* Number of occurrences of an entry in a list.
Count(list, x) == Cardinality({i \in 1..Len(list) : list[i] = x})

\* What one record_cause call on a list must leave behind, whichever index
\* the binary search reports.
RecordCauseKeepsOrder(causes) ==
    \A c \in CauseSamples :
        \A out \in CauseInsertOutcomes(causes, c) :
            /\ CausesSorted(out)
            /\ Len(out) = Len(causes) + 1
            /\ \A e \in CauseSamples :
                   Count(out, e) = Count(causes, e) + (IF e = c THEN 1 ELSE 0)
            /\ out = InsertAfterRun(causes, c)

\* C10: after every record_cause call, extend_causes and merge included, the
\* cause list is sorted by (target, code, note), every cause that was in it
\* before is still in it, and a cause equal to existing entries sits after
\* the run of entries equal to it.
C10_CausesOrdered ==
    /\ CausesSorted(dself.causes)
    /\ CausesSorted(dother.causes)
    /\ RecordCauseKeepsOrder(dself.causes)
    /\ RecordCauseKeepsOrder(dother.causes)
    /\ phase = "merged" =>
           \A e \in CauseSamples :
               Count(dself.causes, e) = Count(self0.causes, e) + Count(dother.causes, e)

\* A merge has inserted causes into a list that already held an equal one
\* and a greater one was recorded before a smaller one.
C10_Witness ==
    /\ phase = "merged"
    /\ Len(dself.causes) = 3
    /\ \E i \in 1..2 : dself.causes[i] = dself.causes[i + 1]
    /\ Len(log) >= 2
    /\ CauseCmp(log[1].value, log[2].value) > 0

\* C8: self.merge(&other) leaves self as replaying the record_* calls that
\* built other on self would: biome and scalar entries overwrite, water and
\* soil deltas add (an entry that sums to 0 is removed), hazards replace,
\* causes go to their sorted position, diag_energy is overwritten only when
\* other carries one.
C8_MergeIsReplay == phase = "merged" => dself = Replay(self0, log)

\* The receiver held an entry before the merge and other was built by two
\* calls that address one region.
C8_Witness ==
    /\ phase = "merged"
    /\ ~is_empty(self0)
    /\ Len(log) = 2
    /\ log[1].op \notin {"record_cause", "record_diag_energy"}
    /\ log[1].region = log[2].region
    /\ dself # self0

\* Two diffs write different values to one last-writer slot: a biome, scalar
\* or hazard entry of one region, or diag_energy.
ListConflict(a, b) ==
    \E i \in 1..Len(a) : \E j \in 1..Len(b) : a[i].region = b[j].region /\ a[i] # b[j]

Conflict(d1, d2) ==
    \/ ListConflict(d1.biome, d2.biome)
    \/ ListConflict(d1.insolation, d2.insolation)
    \/ ListConflict(d1.tide_envelope, d2.tide_envelope)
    \/ ListConflict(d1.elevation, d2.elevation)
    \/ ListConflict(d1.temperature, d2.temperature)
    \/ ListConflict(d1.precipitation, d2.precipitation)
    \/ ListConflict(d1.humidity, d2.humidity)
    \/ ListConflict(d1.albedo, d2.albedo)
    \/ ListConflict(d1.freshwater_flux, d2.freshwater_flux)
    \/ ListConflict(d1.ice_mass, d2.ice_mass)
    \/ ListConflict(d1.hazards, d2.hazards)
    \/ (d1.diag_energy # <<>> /\ d2.diag_energy # <<>> /\ d1.diag_energy # d2.diag_energy)

\* Merging D1 then D2 into an empty diff against merging D2 then D1.
MergeBothWays(d1, d2) ==
    merge(merge(EmptyDiff, d1), d2) = merge(merge(EmptyDiff, d2), d1)

\* C7 (as stated): merge is commutative, merging D1 then D2 gives the diff
\* that merging D2 then D1 gives.
C7_MergeCommutes == MergeBothWays(dself, dother)

\* C7 (amended): merging D1 then D2 gives the diff that merging D2 then D1
\* gives whenever D1 and D2 do not write different values to one biome,
\* scalar or hazard entry of a region nor carry different diag_energy; water
\* and soil deltas and causes commute without condition.
C7_MergeCommutesWithoutConflict ==
    ~Conflict(dself, dother) => MergeBothWays(dself, dother)

\* Both diffs carry a delta for one region, or causes, or entries of one
\* scalar list, and neither overrides the other.
C7_Witness ==
    /\ ~Conflict(dself, dother)
    /\ \/ \E i \in 1..Len(dself.water) : \E j \in 1..Len(dother.water) :
              dself.water[i].region = dother.water[j].region
       \/ dself.causes # <<>> /\ Len(dother.causes) = 2
       \/ dself.temperature # <<>> /\ dother.temperature # <<>>

\* struct Region values the apply checks start from: a region whose meters
\* sit near the top of their range, one in mid range, one whose water meter
\* is above WATER_MAX.
HighRegion(id) == Region(id, id, 0, 120, 45, 1, 9900, 9900, 150, 800, 300, 0, 0, Hazards(0, 0))

MidRegion(id) == Region(id, id, 0, 10, 12, 3, 5000, 100, -50, 300, 600, 40, 20, Hazards(10, 20))

OverRegion(id) == Region(id, id, 0, 0, 0, 0, 10100, 5000, 0, 0, 450, 0, 0, Hazards(0, 0))

\* Worlds as World::new builds them.
WorldSamples ==
    {NewWorld(7, 2, 1, <<HighRegion(0), MidRegion(1)>>),
     NewWorld(7, 1, 1, <<MidRegion(0)>>),
     NewWorld(7, 2, 1, <<OverRegion(0), HighRegion(1)>>)}

\* apply(W, merge(D1, D2)) against apply(apply(W, D1), D2), with D1 the
\* receiver before the merge and D2 the merged diff.
ApplyMergedIsSequential(w) ==
    apply(w, dself) = apply(apply(w, self0), dother)

\* C6: for any world W and diffs D1, D2, applying the merged diff
\* gives the world that applying D1 and then D2 gives.
C6_ApplyMerged ==
    phase = "merged" => \A w \in WorldSamples : ApplyMergedIsSequential(w)

\* ------------------------------------------------------------------------
\* Spec: the tick driver, lib.rs tick_once with schedule.rs run_kernel
\* ------------------------------------------------------------------------

\* Regions of the worlds the driver is started on.
Lowland(id, x) == Region(id, x, 0, 100, 12, 3, 4200, 3100, 180, 900, 320, 0, 0, Hazards(0, 0))

Highland(id, x) == Region(id, x, 0, 900, 45, 1, 6100, 2300, -20, 1400, 410, 0, 500, Hazards(0, 0))

Flooded(id, x) == Region(id, x, 0, 20, 72, 0, 10001, 5000, -120, 600, 700, 0, 2000, Hazards(0, 0))

Equatorial(id, x) == Region(id, x, 0, 100, 0, 3, 4200, 3100, 250, 900, 100, 0, 0, Hazards(0, 0))

\* Worlds as World::new builds them from regions the caller supplies: a
\* two-region strip, a world whose only region carries more water than
\* WATER_MAX, a world whose second region has an id that is not its index,
\* a strip whose albedo snapshot (a pub field of ClimateState) was taken
\* when the regions' albedo was far from what it is now, and an ice-free
\* region on the equator at the albedo floor with such a snapshot, as
\* World::new leaves it, and with a sea level carried over that is 300 mm
\* short of i32::MAX.
TickWorlds ==
    {NewWorld(11, 2, 1, <<Lowland(0, 0), Highland(1, 1)>>),
     NewWorld(11, 1, 1, <<Flooded(0, 0)>>),
     NewWorld(11, 2, 1, <<Lowland(0, 0), Highland(3, 1)>>),
     [NewWorld(11, 2, 1, <<Lowland(0, 0), Highland(1, 1)>>) EXCEPT
         !.climate.last_albedo_milli = <<520, 210>>],
     [NewWorld(11, 1, 1, <<Equatorial(0, 0)>>) EXCEPT
         !.climate.last_albedo_milli = <<250>>],
     NewWorld(11, 1, 1, <<Equatorial(0, 0)>>),
     [NewWorld(11, 1, 1, <<Equatorial(0, 0)>>) EXCEPT
         !.climate.sea_level_equivalent_mm = I32_MAX - 300]}

\* Seeds handed to tick_once.
Seeds == {3, 8}

\* Faulty variant of the entry check: any tick after the current one is let in.
TickInOrder_loose(w, tick) == tick >= w.tick + 1

\* The ensure! that opens tick_once.
TickInOrder(w, tick) == tick = w.tick + 1

\* schedule.rs run_kernel line 36 and lib.rs line 43: the kernel's stream.
KernelRng(stage) ==
    derive(StreamFrom(call.seed, "kernel:climate", call.tick), stream_label(stage))

\* Faulty variant of the accumulation: the aggregate is replaced by the
\* diff of the step.
MergeRun_replaces(aggregate, diff) == diff

\* aggregate_diff.merge(&run.diff), with the lists of the diff that
\* diff.rs does not declare merged like scalar lists.
MergeRun(aggregate, diff) ==
    [merge(aggregate, diff) EXCEPT
       !.temperature_baseline = MergeScalars(@, diff.temperature_baseline),
       !.permafrost_active = MergeScalars(@, diff.permafrost_active),
       !.melt_pulse = MergeScalars(@, diff.melt_pulse),
       !.diag_climate = MergeScalars(@, diff.diag_climate),
       !.diagnostics = MergeScalars(@, diff.diagnostics)]

\* Faulty variant of the commit: the diff is merged into the aggregate only.
Commit_skip(w, diff) == w

\* Faulty variant of the commit: every commit also refreshes the albedo
\* snapshot of the climate state.
Commit_refreshes_snapshot(w, diff) ==
    LET committed == apply(w, diff)
    IN  [committed EXCEPT
           !.climate.last_albedo_milli =
               [k \in 1..Len(committed.climate.last_albedo_milli) |->
                   IF k <= Len(committed.regions)
                   THEN committed.regions[k].albedo_milli
                   ELSE committed.climate.last_albedo_milli[k]]]

\* apply(world, run.diff.clone()) of run_kernel and of the two steps
\* tick_once commits itself.
Commit(w, diff) == apply(w, diff)

\* Faulty variant of the tick store: the tick after the requested one is stored.
AdvanceTick_skip(w, tick) == [w EXCEPT !.tick = tick + 1]

\* world.tick = tick
AdvanceTick(w, tick) == [w EXCEPT !.tick = tick]

\* One step of tick_once: the kernel has answered run for stage. On Err the
\* `?` returns from tick_once and the locals are dropped; on Ok the diff is
\* merged into the aggregate and committed, and the chronicle extended by
\* lines.
Step(stage, next, run, lines) ==
    /\ pc = stage
    /\ ran' = Append(ran, [stage |-> stage, read |-> world, diff |-> run.diff,
                           said |-> run.chronicle])
    /\ IF run.ok
       THEN /\ aggregate_diff' = MergeRun(aggregate_diff, run.diff)
            /\ world' = Commit(run.world, run.diff)
            /\ chronicle' = chronicle \o lines
            /\ pc' = next
            /\ UNCHANGED result
       ELSE /\ aggregate_diff' = EmptyDiff
            /\ world' = run.world
            /\ chronicle' = <<>>
            /\ pc' = "idle"
            /\ result' = "err"
    /\ UNCHANGED <<call, pre, calls, origin>>
    /\ UNCHANGED <<diffVars, benchVars>>

\* tick_once is entered: lines 32-43.
Call ==
    /\ pc = "idle"
    /\ calls < MaxCalls
    /\ \E seed \in Seeds, tick \in {world.tick, world.tick + 1, world.tick + 2} :
           /\ call' = [seed |-> seed, tick |-> tick]
           /\ IF TickInOrder(world, tick)
              THEN pc' = "astronomy" /\ result' = "running"
              ELSE pc' = "idle" /\ result' = "err"
    /\ pre' = world
    /\ calls' = calls + 1
    /\ aggregate_diff' = EmptyDiff
    /\ chronicle' = <<>>
    /\ atmos_diff' = EmptyDiff
    /\ cryo_diff' = EmptyDiff
    /\ ran' = <<>>
    /\ UNCHANGED <<world, origin>>
    /\ UNCHANGED <<diffVars, benchVars>>

Astronomy ==
    /\ pc = "astronomy"
    /\ \E rng \in {KernelRng("kernel:astronomy")} :
       \E run \in {AstronomyUpdate(world, rng)} :
       /\ Step("astronomy", "geodynamics", run, run.chronicle)
       /\ UNCHANGED <<atmos_diff, cryo_diff>>

Geodynamics ==
    /\ pc = "geodynamics"
    /\ \E rng \in {KernelRng("kernel:geodynamics")} :
       \E run \in {GeodynamicsUpdate(world, rng)} :
       /\ Step("geodynamics", "atmosphere", run, run.chronicle)
       /\ UNCHANGED <<atmos_diff, cryo_diff>>

Atmosphere ==
    /\ pc = "atmosphere"
    /\ \E rng \in {KernelRng("kernel:atmosphere")} :
       \E run \in {AtmosphereUpdate(world, rng)} :
       /\ Step("atmosphere", "cryosphere", run,
               IF run.chronicle # <<>>
               THEN <<Line("Hadley belt drifted northward under seasonal tilt.", <<>>)>>
               ELSE <<>>)
       /\ atmos_diff' = run.diff
       /\ UNCHANGED cryo_diff

Cryosphere ==
    /\ pc = "cryosphere"
    /\ \E rng \in {KernelRng("kernel:cryosphere")} :
       \E run \in {CryosphereUpdate(world, rng)} :
       /\ Step("cryosphere", "coupler", run, run.chronicle)
       /\ cryo_diff' = run.diff
       /\ UNCHANGED atmos_diff

Coupler ==
    /\ pc = "coupler"
    /\ \E run \in {reconcile_with_world(world, atmos_diff, cryo_diff)} :
       /\ Step("coupler", "climate_diag", run,
               IF ~is_empty(run.diff)
               THEN <<Line("Cryosphere shifts rebalanced atmospheric energy baselines across the globe.", <<>>)>>
               ELSE <<>>)
       /\ UNCHANGED <<atmos_diff, cryo_diff>>

ClimateDiag ==
    /\ pc = "climate_diag"
    /\ \E run \in {ClimateDiagUpdate(world)} :
       /\ Step("climate_diag", "climate", run, run.chronicle)
       /\ UNCHANGED <<atmos_diff, cryo_diff>>

Climate ==
    /\ pc = "climate"
    /\ \E rng \in {KernelRng("kernel:climate/core")} :
       \E run \in {ClimateUpdate(world, rng)} :
       /\ Step("climate", "ecology", run, run.chronicle)
       /\ UNCHANGED <<atmos_diff, cryo_diff>>

Ecology ==
    /\ pc = "ecology"
    /\ \E rng \in {KernelRng("kernel:ecology")} :
       \E run \in {EcologyUpdate(world, rng)} :
       /\ Step("ecology", "advance", run, run.chronicle)
       /\ UNCHANGED <<atmos_diff, cryo_diff>>

\* Lines 128-133: the chronicle stream is derived and sampled, the tick is
\* stored and the aggregate returned.
Advance ==
    /\ pc = "advance"
    /\ world' = AdvanceTick(world, call.tick)
    /\ result' = "ok"
    /\ pc' = "idle"
    /\ UNCHANGED <<call, aggregate_diff, chronicle, atmos_diff, cryo_diff, pre, calls, ran,
                   origin>>
    /\ UNCHANGED <<diffVars, benchVars>>

\* The diff variables while the driver runs.
IdleDiff ==
    /\ focus = "biome"
    /\ dself = EmptyDiff
    /\ dother = EmptyDiff
    /\ log = <<>>
    /\ nself = 0
    /\ self0 = EmptyDiff
    /\ phase = "build"

Init ==
    /\ world \in TickWorlds
    /\ pc = "idle"
    /\ call = [seed |-> 0, tick |-> 0]
    /\ aggregate_diff = EmptyDiff
    /\ chronicle = <<>>
    /\ atmos_diff = EmptyDiff
    /\ cryo_diff = EmptyDiff
    /\ result = "none"
    /\ pre = world
    /\ calls = 0
    /\ ran = <<>>
    /\ origin = world
    /\ IdleDiff
    /\ IdleBench

Next ==
    \/ Call
    \/ Astronomy
    \/ Geodynamics
    \/ Atmosphere
    \/ Cryosphere
    \/ Coupler
    \/ ClimateDiag
    \/ Climate
    \/ Ecology
    \/ Advance

Spec == Init /\ [][Next]_vars

\* ------------------------------------------------------------------------
\* Properties of the tick driver (Spec)
\* ------------------------------------------------------------------------

\* The order in which tick_once runs its steps.
StageOrder ==
    <<"astronomy", "geodynamics", "atmosphere", "cryosphere", "coupler",
      "climate_diag", "climate", "ecology">>

\* The world after the diffs have been applied in order.
RECURSIVE ApplyAll(_, _)
ApplyAll(w, diffs) ==
    IF diffs = <<>> THEN w ELSE ApplyAll(apply(w, Head(diffs)), Tail(diffs))

\* The diffs of the steps before step i of the call.
EarlierDiffs(i) == [k \in 1..(i - 1) |-> ran[k].diff]

\* C1 (as stated): when a kernel returns an error during tick_once, every
\* region field and every climate carry-state value is what it was before
\* the call, the partial diff is discarded and world.tick is not advanced.
C1_ErrorLeavesWorld ==
    result = "err" =>
        /\ world.regions = pre.regions
        /\ world.climate = pre.climate
        /\ world.tick = pre.tick
        /\ aggregate_diff = EmptyDiff

\* C2: tick_once called with a tick other than world.tick + 1 returns an
\* error before any kernel runs and leaves regions, climate carry-state and
\* tick exactly as they were.
C2_OutOfOrderRejected ==
    (calls > 0 /\ call.tick # pre.tick + 1) =>
        /\ result = "err"
        /\ pc = "idle"
        /\ ran = <<>>
        /\ world = pre

\* A world that has been ticked once is asked for the tick after next.
C2_Witness ==
    /\ calls >= 2
    /\ result = "err"
    /\ pre.tick = 1
    /\ call.tick = 3
    /\ pre.climate.last_insolation_tenths # <<0, 0>>

\* What one step of the driver may do to world.tick.
TickStep ==
    /\ world'.tick = world.tick \/ world'.tick = world.tick + 1
    /\ (result' = "ok" /\ pc # "idle" /\ pc' = "idle") =>
           (world'.tick = world.tick + 1 /\ world'.tick = call.tick)
    /\ (result' = "err" /\ pc' = "idle") => world'.tick = pre'.tick
    /\ ~(result' = "ok" /\ pc # "idle" /\ pc' = "idle") => world'.tick = world.tick

\* C3: over any sequence of tick_once calls world.tick increases by exactly
\* 1 on every successful call, when it equals the tick argument, and is left
\* as it was by every failed call; it never decreases or skips a value.
C3_TickAdvancesByOne == [][TickStep]_vars

\* Two calls have succeeded and one has failed.
C3_Witness ==
    /\ result = "ok"
    /\ world.tick = 2
    /\ calls = 3

\* C4: within one tick_once the steps run in the order astronomy,
\* geodynamics, atmosphere, cryosphere, coupler, climate diagnostics, climate
\* classification, ecology; each step is given a world to which the diffs of
\* all earlier steps of the tick have been applied; world.tick is advanced
\* only after the last commit.
C4_ScheduleOrder ==
    /\ Len(ran) <= Len(StageOrder)
    /\ \A i \in 1..Len(ran) :
           /\ ran[i].stage = StageOrder[i]
           /\ ran[i].read.regions = ApplyAll(pre, EarlierDiffs(i)).regions
           /\ ran[i].read.climate.last_insolation_tenths =
                  ApplyAll(pre, EarlierDiffs(i)).climate.last_insolation_tenths
           /\ ran[i].read.tick = pre.tick
    /\ world.tick # pre.tick => (Len(ran) = Len(StageOrder) /\ result = "ok")
    /\ (pc # "idle" /\ pc # "advance") => pc = StageOrder[Len(ran) + 1]

\* A tick has succeeded in which the cryosphere was given the temperature
\* the atmosphere recorded and ecology the biome the classification chose.
C4_Witness ==
    /\ result = "ok"
    /\ Len(ran) = 8
    /\ ran[3].diff.temperature # <<>>
    /\ ran[3].diff.temperature[1].region = 0
    /\ ran[4].read.regions[1].temperature_tenths_c = ran[3].diff.temperature[1].value
    /\ ran[4].read.regions[1].temperature_tenths_c # pre.regions[1].temperature_tenths_c
    /\ ran[7].diff.biome # <<>>
    /\ ran[8].read.regions # ran[7].read.regions

\* ------------------------------------------------------------------------
\* SpecApply: reduce::apply called on diffs assembled by hand
\* ------------------------------------------------------------------------

\* Number of entries pushed onto the diffs of one run.
MaxEntries == 3

\* Number of apply calls of one run.
MaxApplies == 2

\* Worlds whose meters are in range: one in the middle of every range, one
\* at the ends.
ApplyWorlds ==
    {NewWorld(7, 2, 1,
              <<Region(0, 0, 0, 120, 10, 2, 5000, 5000, 150, 1200, 300, 40, 25,
                       Hazards(100, 200)),
                Region(1, 1, 0, 900, 60, 4, 9000, 300, -80, 400, 700, 0, 0,
                       Hazards(0, 0))>>),
     NewWorld(9, 2, 1,
              <<Region(0, 0, 0, -1000, 80, 0, 0, SOIL_MAX, TEMP_MIN_TENTHS_C, 0,
                       ALBEDO_MAX, FRESHWATER_FLUX_MAX, 0, Hazards(WATER_MAX, 0)),
                Region(1, 1, 0, 4000, 0, 5, WATER_MAX, 0, TEMP_MAX_TENTHS_C,
                       PRECIP_MAX_MM, 0, 0, 70000, Hazards(0, WATER_MAX))>>)}

\* ScalarValue entries for the regions addressed.
ScalarEntries(values) ==
    {[region |-> r, value |-> v] : r \in DiffRegionIds, v \in values}

\* ResourceDelta entries for the regions addressed.
DeltaEntries(deltas) ==
    {[region |-> r, delta |-> d] : r \in DiffRegionIds, d \in deltas}

\* The entries a caller pushes onto the lists apply reads: values below,
\* inside and above what the world's fields hold.
ApplyEntries ==
    [biome |-> {[region |-> r, biome |-> b] : r \in DiffRegionIds, b \in {-1, 3, 300}},
     insolation |-> ScalarEntries({-40, 9000}),
     water |-> DeltaEntries({-20000, 2500, I32_MAX}),
     soil |-> DeltaEntries({-2500, 20000}),
     elevation |-> ScalarEntries({-5000, 9000}),
     temperature |-> ScalarEntries({-900, 900}),
     temperature_baseline |-> ScalarEntries({-300, 900}),
     precipitation |-> ScalarEntries({-1, 9000}),
     albedo |-> ScalarEntries({-1, 2000}),
     freshwater_flux |-> ScalarEntries({-1, 3000}),
     ice_mass |-> ScalarEntries({-5, 40}),
     hazards |-> {[region |-> r, drought |-> h[1], flood |-> h[2]] :
                     r \in DiffRegionIds, h \in {<<20000, 0>>, <<50, 65535>>}}]

\* Vec::push on one of the diff's lists.
Push ==
    /\ pushed < MaxEntries
    /\ \E f \in DOMAIN ApplyEntries :
       \E e \in ApplyEntries[f] :
          pending' = [pending EXCEPT ![f] = Append(@, e)]
    /\ pushed' = pushed + 1
    /\ UNCHANGED <<target, before, applied, applies>>
    /\ UNCHANGED notApply

\* apply(&mut world, diff): the diff is moved into the call.
ApplyCall ==
    /\ applies < MaxApplies
    /\ before' = target
    /\ applied' = pending
    /\ target' = apply(target, pending)
    /\ pending' = EmptyDiff
    /\ applies' = applies + 1
    /\ UNCHANGED pushed
    /\ UNCHANGED notApply

InitApply ==
    /\ target \in ApplyWorlds
    /\ pending = EmptyDiff
    /\ before = target
    /\ applied = EmptyDiff
    /\ applies = 0
    /\ pushed = 0
    /\ IdleTick
    /\ IdleDiff
    /\ IdleDelay
    /\ IdleSea
    /\ IdleHazard
    /\ IdleStream
    /\ IdleSite

NextApply == Push \/ ApplyCall

SpecApply == InitApply /\ [][NextApply]_vars

\* The entries of list grouped by region, regions ascending, the entries of
\* one region in the order list has them.
RECURSIVE GroupedByRegion(_, _)
GroupedByRegion(list, keys) ==
    IF keys = {} THEN <<>>
    ELSE LET k == CHOOSE k \in keys : \A j \in keys : k <= j
         IN  SelectSeq(list, LAMBDA e : e.region = k) \o GroupedByRegion(list, keys \ {k})

\* The diff with every list apply reads sorted by region.
SortedDiff(d) ==
    [f \in DOMAIN d |->
        IF f \in DOMAIN ApplyEntries
        THEN GroupedByRegion(d[f], {d[f][i].region : i \in 1..Len(d[f])})
        ELSE d[f]]

\* C11: apply does not depend on the order of the entries in the diff's
\* lists: for every world and every diff, whatever the order of its lists,
\* apply(world, d) leaves the world that apply(world, d with every list
\* sorted by region) leaves.
C11_OrderIndependent ==
    applies > 0 => target = apply(before, SortedDiff(applied))

\* A list that was applied held an entry of region 1, one of region 0 and a
\* different one of region 1, in that order, and the call changed the world.
C11_Witness ==
    /\ applies > 0
    /\ target # before
    /\ \E f \in DOMAIN ApplyEntries :
          /\ Len(applied[f]) = 3
          /\ applied[f][1].region = 1
          /\ applied[f][2].region = 0
          /\ applied[f][3].region = 1
          /\ applied[f][1] # applied[f][3]
          /\ SortedDiff(applied)[f] # applied[f]

\* The region meters apply clamps, each within its declared range.
MetersInRange(region) ==
    /\ region.water >= 0 /\ region.water <= WATER_MAX
    /\ region.soil >= 0 /\ region.soil <= SOIL_MAX
    /\ region.precipitation_mm >= 0 /\ region.precipitation_mm <= PRECIP_MAX_MM
    /\ region.albedo_milli >= 0 /\ region.albedo_milli <= ALBEDO_MAX
    /\ region.freshwater_flux_tenths_mm >= 0
    /\ region.freshwater_flux_tenths_mm <= FRESHWATER_FLUX_MAX
    /\ region.temperature_tenths_c >= TEMP_MIN_TENTHS_C
    /\ region.temperature_tenths_c <= TEMP_MAX_TENTHS_C
    /\ region.hazards.drought >= 0 /\ region.hazards.drought <= WATER_MAX
    /\ region.hazards.flood >= 0 /\ region.hazards.flood <= WATER_MAX
    /\ region.ice_mass_kilotons >= 0

\* C12: from a world whose region meters are within their ranges, after any
\* sequence of apply calls with arbitrary diffs every region has water and
\* soil in [0, 10000], precipitation in [0, 5000], albedo in [0, 1000],
\* freshwater flux in [0, 2000], temperature in [-500, 500], both hazard
\* meters in [0, 10000] and ice mass >= 0.
C12_MetersStayInRange ==
    \A i \in 1..Len(target.regions) : MetersInRange(target.regions[i])

\* Two apply calls have been made: the first drew region 0's water down to
\* the floor, the second carried a water delta of i32::MAX, a temperature
\* above the range and a flood level of u16::MAX, and each was clamped.
C12_Witness ==
    /\ applies = 2
    /\ before.regions[1].water = 0
    /\ \E i \in 1..Len(applied.water) :
          applied.water[i].delta = I32_MAX /\ applied.water[i].region = 0
    /\ \E i \in 1..Len(applied.hazards) :
          applied.hazards[i].flood > WATER_MAX /\ applied.hazards[i].region = 0
    /\ target.regions[1].water = WATER_MAX
    /\ target.regions[1].hazards.flood = WATER_MAX

\* C13 (as stated): after every apply every region's biome is one of 0, 1,
\* 2, 3, 4, 5, whatever biome values the diff carries.
C13_BiomeInRange ==
    \A i \in 1..Len(target.regions) : target.regions[i].biome \in 0..5

\* C14 (as stated): after every apply every region's elevation_m lies in
\* [-1000, 4000].
C14_ElevationInRange ==
    \A i \in 1..Len(target.regions) :
        target.regions[i].elevation_m >= -1000 /\ target.regions[i].elevation_m <= 4000

\* C15 (as stated): after every apply every
\* climate.temperature_baseline_tenths[region] lies in [-120, 120].
C15_BaselineInRange ==
    \A i \in 1..Len(target.climate.temperature_baseline_tenths) :
        /\ target.climate.temperature_baseline_tenths[i] >= -120
        /\ target.climate.temperature_baseline_tenths[i] <= 120

\* The world a recorded step left: the one handed to the step after it, or
\* the current one for the step made last.
WorldAfter(i) == IF i < Len(ran) THEN ran[i + 1].read ELSE world

\* C16: the coupler never writes temperature in its own tick: the diff it
\* returns has no temperature entries and committing it leaves every
\* region's temperature_tenths_c as it was; its only effects on the world
\* are on climate.last_albedo_milli and climate.temperature_baseline_tenths.
C16_CouplerLeavesTemperature ==
    \A i \in 1..Len(ran) :
        ran[i].stage = "coupler" =>
            /\ ran[i].diff.temperature = <<>>
            /\ \A r \in 1..Len(ran[i].read.regions) :
                   WorldAfter(i).regions[r].temperature_tenths_c =
                       ran[i].read.regions[r].temperature_tenths_c
            /\ WorldAfter(i).regions = ran[i].read.regions
            /\ WorldAfter(i).tick = ran[i].read.tick
            /\ [WorldAfter(i).climate EXCEPT
                   !.last_albedo_milli = ran[i].read.climate.last_albedo_milli,
                   !.temperature_baseline_tenths =
                       ran[i].read.climate.temperature_baseline_tenths]
                 = ran[i].read.climate

\* In a tick whose atmosphere step recorded temperatures the coupler moved a
\* baseline and the albedo snapshot, and the step after it has run.
C16_Witness ==
    /\ Len(ran) >= 6
    /\ ran[5].stage = "coupler"
    /\ ran[3].diff.temperature # <<>>
    /\ ran[5].diff.temperature_baseline # <<>>
    /\ ran[6].read.climate.temperature_baseline_tenths #
           ran[5].read.climate.temperature_baseline_tenths
    /\ ran[6].read.climate.last_albedo_milli # ran[5].read.climate.last_albedo_milli

\* ------------------------------------------------------------------------
\* SpecDelay: the coupler's baseline shift and the atmosphere of the next
\* tick, on a world the coupler ran on and a copy it did not run on
\* (coupler.rs, reconcile_tracks_baseline_offsets)
\* ------------------------------------------------------------------------

\* A world in tick 1 after the cryosphere step: region 0 at the given height
\* and latitude and with the given baseline carried over from earlier
\* ticks, the albedo of both regions moved by step away from the snapshot
\* the climate state holds.
DelayWorld(seed, elevation_m, latitude_deg, step, baseline) ==
    [apply(NewWorld(seed, 2, 1,
                    <<Region(0, 0, 0, elevation_m, latitude_deg, 2, 5000, 5000, 20, 400,
                             300, 0, 100, Hazards(0, 0)),
                      Highland(1, 1)>>),
           record_albedo(record_albedo(EmptyDiff, 0, 300 + step), 1, 410 - step))
        EXCEPT !.climate.temperature_baseline_tenths = <<baseline, 0>>]

DelayWorlds ==
    {DelayWorld(seed, elevation_m, latitude_deg, step, baseline) :
        seed \in Seeds, elevation_m \in {0, 1500, 4000},
        latitude_deg \in {5, 45, 85}, step \in {-90, 90}, baseline \in {-100, 0}}

\* The albedo entries the cryosphere step of the tick recorded.
CryoAlbedo(w) ==
    record_albedo(record_albedo(EmptyDiff, 0, w.regions[1].albedo_milli),
                  1, w.regions[2].albedo_milli)

\* lib.rs lines 90-97 on the shifted world only: the coupler runs and its
\* diff is committed.
Reconcile ==
    /\ lag = "cryosphere"
    /\ \E run \in {reconcile_with_world(shifted, EmptyDiff, CryoAlbedo(shifted))} :
          shifted' = Commit(run.world, run.diff)
    /\ lag' = "coupled"
    /\ UNCHANGED <<control, lag_seed, control_run, shifted_run>>
    /\ UNCHANGED notDelay

\* lib.rs lines 128-133: the tick ends in both worlds.
EndTick ==
    /\ lag = "coupled"
    /\ control' = [control EXCEPT !.tick = @ + 1]
    /\ shifted' = [shifted EXCEPT !.tick = @ + 1]
    /\ lag' = "ended"
    /\ UNCHANGED <<lag_seed, control_run, shifted_run>>
    /\ UNCHANGED notDelay

\* lib.rs lines 68-78 in both worlds: the atmosphere step of the next tick,
\* both driven by the same stream, and its commit.
NextAtmosphere ==
    /\ lag = "ended"
    /\ \E rng \in {derive(StreamFrom(lag_seed, "kernel:climate", control.tick + 1),
                           stream_label("kernel:atmosphere"))} :
       \E c \in {AtmosphereUpdate(control, rng)} :
       \E s \in {AtmosphereUpdate(shifted, rng)} :
          /\ control' = Commit(c.world, c.diff)
          /\ shifted' = Commit(s.world, s.diff)
          /\ control_run' = c.diff.temperature
          /\ shifted_run' = s.diff.temperature
    /\ lag' = "next"
    /\ UNCHANGED lag_seed
    /\ UNCHANGED notDelay

InitDelay ==
    /\ control \in DelayWorlds
    /\ shifted = control
    /\ lag = "cryosphere"
    /\ lag_seed = control.seed
    /\ control_run = <<>>
    /\ shifted_run = <<>>
    /\ IdleTick
    /\ IdleDiff
    /\ IdleApply
    /\ IdleSea
    /\ IdleHazard
    /\ IdleStream
    /\ IdleSite

NextDelay == Reconcile \/ EndTick \/ NextAtmosphere

SpecDelay == InitDelay /\ [][NextDelay]_vars

\* How far the coupler moved the baseline of region r (1-based).
BaselineShift(r) ==
    shifted.climate.temperature_baseline_tenths[r]
        - control.climate.temperature_baseline_tenths[r]

\* How far the temperature of region r in the shifted world is from the
\* control world's.
TemperatureGap(r) ==
    shifted.regions[r].temperature_tenths_c - control.regions[r].temperature_tenths_c

\* Where both worlds' atmosphere diffs carry a temperature for a region, how
\* far apart the two entries are allowed to be.
EntriesApart(Allowed(_, _)) ==
    \A i \in 1..Len(control_run), j \in 1..Len(shifted_run) :
        control_run[i].region = shifted_run[j].region =>
            Allowed(shifted_run[j].value - control_run[i].value,
                    BaselineShift(control_run[i].region + 1))

\* The temperature is strictly inside the range the commit clamps to.
InsideClamp(t) == t > TEMP_MIN_TENTHS_C /\ t < TEMP_MAX_TENTHS_C

\* C17 (as stated): the temperature of tick t is the same in both worlds,
\* and in tick t+1 the atmosphere temperature of region r in the shifted
\* world differs from the control world's by exactly the shift s.
C17_ExactShift ==
    /\ lag \in {"coupled", "ended"} =>
           \A r \in 1..Len(control.regions) : TemperatureGap(r) = 0
    /\ lag = "next" =>
           /\ \A r \in 1..Len(control.regions) : TemperatureGap(r) = BaselineShift(r)
           /\ EntriesApart(LAMBDA gap, s : gap = s)

\* C17 (amended): the temperature of tick t is the same in both worlds; in
\* tick t+1 the atmosphere temperature of region r in the shifted world
\* differs from the control world's by exactly s when both temperatures are
\* strictly inside the clamp range [-500, 500], and otherwise by an amount
\* between 0 and s.
C17_ShiftUnlessClamped ==
    /\ lag \in {"coupled", "ended"} =>
           \A r \in 1..Len(control.regions) : TemperatureGap(r) = 0
    /\ lag = "next" =>
           /\ \A r \in 1..Len(control.regions) :
                  /\ (InsideClamp(control.regions[r].temperature_tenths_c)
                          /\ InsideClamp(shifted.regions[r].temperature_tenths_c))
                         => TemperatureGap(r) = BaselineShift(r)
                  /\ TemperatureGap(r) \in
                         Min(0, BaselineShift(r))..Max(0, BaselineShift(r))
           /\ EntriesApart(LAMBDA gap, s : gap \in Min(0, s)..Max(0, s))
           /\ \A i \in 1..Len(control_run) :
                  control_run[i].value =
                      control.regions[control_run[i].region + 1].temperature_tenths_c
           /\ \A j \in 1..Len(shifted_run) :
                  shifted_run[j].value =
                      shifted.regions[shifted_run[j].region + 1].temperature_tenths_c

\* The coupler moved the baselines of both regions, one up and one down,
\* without touching the temperatures of its tick, and the atmosphere of the
\* next tick recorded temperatures for both regions in both worlds that are
\* apart by the shifts.
C17_Witness ==
    /\ lag = "next"
    /\ BaselineShift(1) = 1
    /\ BaselineShift(2) = -1
    /\ TemperatureGap(1) = 1
    /\ TemperatureGap(2) = -1
    /\ Len(control_run) = 2
    /\ Len(shifted_run) = 2
    /\ shifted_run[1].value = control_run[1].value + 1

\* ------------------------------------------------------------------------
\* SpecSea: ClimateState::add_sea_level_equivalent_mm called repeatedly
\* ------------------------------------------------------------------------

\* Number of add_sea_level_equivalent_mm calls of one run.
MaxSeaCalls == 3

\* The deltas handed in: none, small ones, and ones that pass either end of
\* i32 alone or together.
SeaDeltas == {0, 12, -2, 1, I32_MAX, I32_MIN, 1500000000, -1500000000}

AddSeaLevel ==
    /\ ocean_calls < MaxSeaCalls
    /\ \E delta_mm \in SeaDeltas :
          /\ ocean' = add_sea_level_equivalent_mm(ocean, delta_mm)
          /\ ocean_delta' = delta_mm
    /\ ocean_was' = ocean
    /\ ocean_calls' = ocean_calls + 1
    /\ UNCHANGED notSea

InitSea ==
    /\ ocean = from_regions(<<Lowland(0, 0)>>)
    /\ ocean_was = ocean
    /\ ocean_delta = 0
    /\ ocean_calls = 0
    /\ IdleTick
    /\ IdleDiff
    /\ IdleApply
    /\ IdleDelay
    /\ IdleHazard
    /\ IdleStream
    /\ IdleSite

NextSea == AddSeaLevel

SpecSea == InitSea /\ [][NextSea]_vars

\* The sum a + b of two i32 values as an integer, taken in two 16-bit limbs
\* so that no intermediate value leaves 32 bits, and brought into
\* [i32::MIN, i32::MAX].
ClampedSum(a, b) ==
    LET low == (a % 65536) + (b % 65536)
        high == (a \div 65536) + (b \div 65536) + (low \div 65536)
    IN  IF high > 32767 THEN I32_MAX
        ELSE IF high < -32768 THEN I32_MIN
        ELSE high * 65536 + (low % 65536)

\* C18: for every current value and every i32 delta,
\* add_sea_level_equivalent_mm leaves sea_level_equivalent_mm equal to the
\* mathematical sum clamped to [i32::MIN, i32::MAX]; it never wraps around
\* (a positive delta never lowers the value, a negative one never raises
\* it), and a zero delta leaves the state unchanged.
C18_SeaLevelSaturates ==
    ocean_calls > 0 =>
        /\ ocean = [ocean_was EXCEPT
                       !.sea_level_equivalent_mm = ClampedSum(@, ocean_delta)]
        /\ ocean_delta > 0 =>
               ocean.sea_level_equivalent_mm >= ocean_was.sea_level_equivalent_mm
        /\ ocean_delta < 0 =>
               ocean.sea_level_equivalent_mm <= ocean_was.sea_level_equivalent_mm
        /\ ocean_delta = 0 => ocean = ocean_was

\* A positive level was pushed past i32::MAX by a delta that fits i32 on its
\* own, and stayed at i32::MAX.
C18_Witness ==
    /\ ocean_calls >= 2
    /\ ocean_was.sea_level_equivalent_mm > 0
    /\ ocean_was.sea_level_equivalent_mm < I32_MAX
    /\ ocean_delta > I32_MAX - ocean_was.sea_level_equivalent_mm
    /\ ocean.sea_level_equivalent_mm = I32_MAX

\* ------------------------------------------------------------------------
\* SpecHazard: a hazard gauge blended toward zero tick after tick
\* (ecology.rs, hazard_gauges_decay_without_new_stressors)
\* ------------------------------------------------------------------------

\* Number of blend_hazard calls of one run.
MaxBlends == 15

\* blend_hazard(previous, 0): one tick without stressors.
Decay ==
    /\ Len(gauge_trail) <= MaxBlends
    /\ gauge' = blend_hazard(gauge, 0)
    /\ gauge_trail' = Append(gauge_trail, gauge')
    /\ UNCHANGED notHazard

InitHazard ==
    /\ gauge \in 0..WATER_MAX
    /\ gauge_trail = <<gauge>>
    /\ IdleTick
    /\ IdleDiff
    /\ IdleApply
    /\ IdleDelay
    /\ IdleSea
    /\ IdleStream
    /\ IdleSite

NextHazard == Decay

SpecHazard == InitHazard /\ [][NextHazard]_vars

\* c is half of p rounded up: the least integer whose double is at least p.
IsCeilHalf(c, p) == 2 * c >= p /\ 2 * (c - 1) < p

\* The levels the flood gauge goes through from 6000.
DecayFrom6000 == <<6000, 3000, 1500, 750, 375, 187, 93, 46, 23, 11, 5, 2, 1, 0>>

\* C19: for every level p in [0, 10000], blend_hazard(p, 0) is p less half
\* of p rounded up; blending toward 0 strictly decreases a positive level,
\* does not stall at 1 and reaches 0 (within 14 steps); from 6000 the
\* levels are 3000, 1500, 750, 375, 187, 93, 46, 23, 11, 5, 2, 1, 0.
C19_DecayHalves ==
    LET n == Len(gauge_trail) IN
    /\ gauge = gauge_trail[n]
    /\ n >= 2 =>
           /\ IsCeilHalf(gauge_trail[n - 1] - gauge, gauge_trail[n - 1])
           /\ gauge >= 0
           /\ gauge_trail[n - 1] > 0 => gauge < gauge_trail[n - 1]
           /\ gauge_trail[n - 1] <= 1 => gauge = 0
    /\ n >= 15 => gauge = 0
    /\ gauge_trail[1] = 6000 =>
           \A i \in 1..Min(n, Len(DecayFrom6000)) : gauge_trail[i] = DecayFrom6000[i]

\* The gauge started at 6000 and has come down to 0 through 1 in thirteen
\* blends.
C19_Witness ==
    /\ Len(gauge_trail) = 14
    /\ gauge_trail[1] = 6000
    /\ gauge_trail[13] = 1
    /\ gauge = 0

\* ------------------------------------------------------------------------
\* SpecStream: a stream that is sampled and derived from (rng.rs)
\* ------------------------------------------------------------------------

\* Number of next_u64 calls made on the parent.
MaxDraws == 3

\* Number of derive calls made on the parent.
MaxKids == 2

\* Number of samples of a child that are compared.
MaxSamples == 3

\* Labels handed to derive: region indices and a stage label.
StreamLabels == {0, 5, stream_label("kernel:atmosphere")}

\* Stream::next_u64 on the parent: the counter moves on, the id stays.
DrawParent ==
    /\ draws < MaxDraws
    /\ parent' = [parent EXCEPT !.counter = wrapping_add(@, 31765)]
    /\ draws' = draws + 1
    /\ UNCHANGED <<fresh, kids>>
    /\ UNCHANGED notStream

\* Stream::derive(&self, label): the parent is borrowed, the child returned.
DeriveChild ==
    /\ Len(kids) < MaxKids
    /\ \E label \in StreamLabels :
          kids' = Append(kids, [label |-> label, at |-> draws,
                                child |-> derive(parent, label)])
    /\ UNCHANGED <<parent, fresh, draws>>
    /\ UNCHANGED notStream

InitStream ==
    /\ parent \in {StreamFrom(seed, "kernel:climate", tick) : seed \in Seeds, tick \in 1..2}
    /\ fresh = parent
    /\ draws = 0
    /\ kids = <<>>
    /\ IdleTick
    /\ IdleDiff
    /\ IdleApply
    /\ IdleDelay
    /\ IdleSea
    /\ IdleHazard
    /\ IdleSite

NextStream == DrawParent \/ DeriveChild

SpecStream == InitStream /\ [][NextStream]_vars

\* C20: derive does not modify the parent (the parent's state is the one
\* Stream::from built, moved on by the samples drawn and by nothing else);
\* the child depends only on the parent's stream id and the label, not on
\* how many samples the parent has produced; two children derived with the
\* same label from the same parent yield identical sample sequences.
C20_DeriveIsPure ==
    /\ parent.id = fresh.id
    /\ parent.counter = (fresh.counter + draws * 31765) % WORD
    /\ \A i \in 1..Len(kids) :
           /\ kids[i].child = derive(fresh, kids[i].label)
           /\ kids[i].child = derive([id |-> fresh.id, counter |-> 0], kids[i].label)
           /\ \A j \in 1..Len(kids) :
                  kids[i].label = kids[j].label =>
                      \A n \in 1..MaxSamples :
                          Sample(kids[i].child, n) = Sample(kids[j].child, n)

\* Two children were derived with one label, the first from the parent as
\* built and the second after the parent had produced its samples; a
\* sample of the children differs from the parent's.
C20_Witness ==
    /\ Len(kids) = 2
    /\ kids[1].label = kids[2].label
    /\ kids[1].at = 0
    /\ kids[2].at = MaxDraws
    /\ parent # fresh
    /\ kids[1].child = kids[2].child
    /\ Sample(kids[1].child, 1) # Sample(fresh, 1)

\* ------------------------------------------------------------------------
\* SpecCoupler: coupler runs on worlds whose albedo is away from the
\* snapshot the climate state holds (coupler.rs, reconcile_inner)
\* ------------------------------------------------------------------------

\* Number of coupler runs made on one world.
MaxCouplerRuns == 2

\* A two-region world after the cryosphere step: region 0 with the given
\* albedo, snapshot and baseline; region 1 with no snapshot yet and the
\* mirrored baseline.
CouplerWorld(albedo, snapshot, baseline) ==
    [NewWorld(11, 2, 1,
              <<Region(0, 0, 0, 100, 12, 3, 4200, 3100, 180, 900, albedo, 0, 0,
                       Hazards(0, 0)),
                Highland(1, 1)>>)
        EXCEPT !.climate.last_albedo_milli = <<snapshot, 0>>,
               !.climate.temperature_baseline_tenths = <<baseline, -baseline>>]

CouplerWorlds ==
    {CouplerWorld(albedo, snapshot, baseline) :
        albedo \in {0, 300, 1000},
        snapshot \in {0, 150, 240, 241, 300, 359, 360, 450, 1000},
        baseline \in {-500, -120, -119, 0, 7, 120, 300}}

\* lib.rs lines 90-97: the coupler runs on the world, given the albedo
\* entries the cryosphere step recorded, and its diff is committed.
CouplerRun ==
    /\ site_runs < MaxCouplerRuns
    /\ \E run \in {reconcile_with_world(site, EmptyDiff, CryoAlbedo(site))} :
          /\ site' = Commit(run.world, run.diff)
          /\ site_diff' = run.diff
    /\ site_was' = site
    /\ site_stage' = "coupler"
    /\ site_runs' = site_runs + 1
    /\ UNCHANGED notSite

\* lib.rs lines 90-97 in a tick whose cryosphere step recorded no albedo.
CouplerRunQuiet ==
    /\ site_runs < MaxCouplerRuns
    /\ \E run \in {reconcile_with_world(site, EmptyDiff, EmptyDiff)} :
          /\ site' = Commit(run.world, run.diff)
          /\ site_diff' = run.diff
    /\ site_was' = site
    /\ site_stage' = "coupler_quiet"
    /\ site_runs' = site_runs + 1
    /\ UNCHANGED notSite

InitCoupler ==
    /\ site \in CouplerWorlds
    /\ site_was = site
    /\ site_diff = EmptyDiff
    /\ site_stage = "none"
    /\ site_runs = 0
    /\ IdleTick
    /\ IdleDiff
    /\ IdleApply
    /\ IdleDelay
    /\ IdleSea
    /\ IdleHazard
    /\ IdleStream

NextCoupler == CouplerRun \/ CouplerRunQuiet

SpecCoupler == InitCoupler /\ [][NextCoupler]_vars

\* The albedo anomaly the run saw for region r (1-based): the albedo minus
\* the snapshot, a snapshot of 0 standing for none.
AnomalySeen(r) ==
    IF site_was.climate.last_albedo_milli[r] = 0 THEN 0
    ELSE site_was.regions[r].albedo_milli - site_was.climate.last_albedo_milli[r]

\* round(-anomaly / 120) clamped to [-1, 1]: -1 from an anomaly of 60 on,
\* +1 from -60 down.
AdjustmentFor(anomaly) ==
    IF anomaly >= 60 THEN -1 ELSE IF anomaly <= -60 THEN 1 ELSE 0

\* How far the run moved the baseline of region r.
BaselineChange(r) ==
    site.climate.temperature_baseline_tenths[r]
        - site_was.climate.temperature_baseline_tenths[r]

C22_SnapshotIsCurrent ==
    \A i \in 1..Len(ran) :
        ran[i].stage = "coupler" =>
            \A r \in 1..Len(WorldAfter(i).regions) :
                WorldAfter(i).climate.last_albedo_milli[r] =
                    WorldAfter(i).regions[r].albedo_milli

\* ------------------------------------------------------------------------
\* SpecCryosphere: the cryosphere kernel run and committed on prepared
\* worlds (schedule.rs run_kernel with cryosphere::update)
\* ------------------------------------------------------------------------

\* Number of cryosphere runs made on one world.
MaxCryosphereRuns == 2

\* A two-region world: region 0 high in the north with the given albedo,
\* temperature and ice mass, the sea level carried over from earlier ticks.
CryosphereWorld(albedo, temperature, ice, sea_level) ==
    [NewWorld(11, 2, 1,
              <<Region(0, 0, 0, 50, 68, 1, 5800, 5400, temperature, 500, albedo, 0, ice,
                       Hazards(0, 0)),
                Highland(1, 1)>>)
        EXCEPT !.climate.sea_level_equivalent_mm = sea_level]

CryosphereWorlds ==
    {CryosphereWorld(albedo, temperature, ice, sea_level) :
        albedo \in {0, 79, 80, 100, 520, 1000},
        temperature \in {-90, 110},
        ice \in {0, 3200, 60000},
        sea_level \in {0, I32_MAX - 1}}

\* run_kernel for the cryosphere stage: the kernel runs on the stage's
\* stream and its diff is committed.
CryosphereRun ==
    /\ site_runs < MaxCryosphereRuns
    /\ \E seed \in Seeds :
       \E rng \in {derive(StreamFrom(seed, "kernel:climate", site_runs + 1),
                          stream_label("kernel:cryosphere"))} :
       \E run \in {CryosphereUpdate(site, rng)} :
          /\ site' = Commit(run.world, run.diff)
          /\ site_diff' = run.diff
    /\ site_was' = site
    /\ site_stage' = "cryosphere"
    /\ site_runs' = site_runs + 1
    /\ UNCHANGED notSite

InitCryosphere ==
    /\ site \in CryosphereWorlds
    /\ site_was = site
    /\ site_diff = EmptyDiff
    /\ site_stage = "none"
    /\ site_runs = 0
    /\ IdleTick
    /\ IdleDiff
    /\ IdleApply
    /\ IdleDelay
    /\ IdleSea
    /\ IdleHazard
    /\ IdleStream

NextCryosphere == CryosphereRun

SpecCryosphere == InitCryosphere /\ [][NextCryosphere]_vars

\* C23: in every cryosphere update, for every region albedo in [0, 1000],
\* the albedo committed for a region differs from the region's previous
\* albedo by at most 20, in the diff and in the world.
C23_AlbedoStepCapped ==
    site_stage = "cryosphere" =>
        /\ \A r \in 1..Len(site.regions) :
               site_was.regions[r].albedo_milli \in 0..ALBEDO_MAX =>
                   Abs(site.regions[r].albedo_milli - site_was.regions[r].albedo_milli) <= 20
        /\ \A i \in 1..Len(site_diff.albedo) :
               LET previous == site_was.regions[site_diff.albedo[i].region + 1].albedo_milli
               IN  previous \in 0..ALBEDO_MAX =>
                       Abs(site_diff.albedo[i].value - previous) <= 20

\* ------------------------------------------------------------------------
\* The insolation the atmosphere step reads (Spec)
\* ------------------------------------------------------------------------

\* C24: when the atmosphere kernel samples humidity during tick t,
\* climate.last_insolation_tenths[r] holds the insolation recorded for
\* region r in tick t-1 (what the climate state carried when the tick was
\* entered), not a value produced during tick t.
C24_HumidityReadsPreviousInsolation ==
    \A i \in 1..Len(ran) :
        ran[i].stage = "atmosphere" =>
            ran[i].read.climate.last_insolation_tenths =
                pre.climate.last_insolation_tenths

\* ------------------------------------------------------------------------
\* SpecEcology: the ecology kernel run and committed on prepared worlds
\* (schedule.rs run_kernel with ecology::update)
\* ------------------------------------------------------------------------

\* Number of ecology runs made on one world.
MaxEcologyRuns == 2

\* A two-region world: region 0 with the given water, soil and hazard
\* gauges.
EcologyWorld(water, soil, drought, flood) ==
    NewWorld(11, 2, 1,
             <<Region(0, 0, 0, 100, 12, 3, water, soil, 180, 900, 320, 0, 0,
                      Hazards(drought, flood)),
               Highland(1, 1)>>)

EcologyWorlds ==
    {EcologyWorld(water, soil, drought, flood) :
        water \in {1000, 5000, 9500},
        soil \in {2400, 2600, 6000},
        drought \in {0, 4000, 6000},
        flood \in {0, 1200, 2000}}

\* run_kernel for the ecology stage: the kernel runs on the stage's stream
\* and its diff is committed.
EcologyRun ==
    /\ site_runs < MaxEcologyRuns
    /\ \E seed \in Seeds :
       \E rng \in {derive(StreamFrom(seed, "kernel:climate", site_runs + 1),
                          stream_label("kernel:ecology"))} :
       \E run \in {EcologyUpdate(site, rng)} :
          /\ run.ok
          /\ site' = Commit(run.world, run.diff)
          /\ site_diff' = run.diff
    /\ site_was' = site
    /\ site_stage' = "ecology"
    /\ site_runs' = site_runs + 1
    /\ UNCHANGED notSite

InitEcology ==
    /\ site \in EcologyWorlds
    /\ site_was = site
    /\ site_diff = EmptyDiff
    /\ site_stage = "none"
    /\ site_runs = 0
    /\ IdleTick
    /\ IdleDiff
    /\ IdleApply
    /\ IdleDelay
    /\ IdleSea
    /\ IdleHazard
    /\ IdleStream

NextEcology == EcologyRun

SpecEcology == InitEcology /\ [][NextEcology]_vars

\* The diff carries a cause with the given code for the given part of the
\* region.
HasCause(d, id, what, code) ==
    \E i \in 1..Len(d.causes) :
        d.causes[i].target = RegionTarget(id, what) /\ d.causes[i].code = Code(code)

\* C25: for every region, ecology records a DroughtFlag cause exactly when
\* the blended drought level exceeds 2000, a FloodFlag cause exactly when
\* the blended flood level exceeds 600, and a SoilFertilityLow cause exactly
\* when the new soil value is below 2500.
C25_CausesAtThresholds ==
    site_stage = "ecology" =>
        \A r \in 1..Len(site.regions) :
            /\ HasCause(site_diff, site.regions[r].id, "water", "DroughtFlag")
                   <=> site.regions[r].hazards.drought > 2000
            /\ HasCause(site_diff, site.regions[r].id, "water", "FloodFlag")
                   <=> site.regions[r].hazards.flood > 600
            /\ HasCause(site_diff, site.regions[r].id, "soil", "SoilFertilityLow")
                   <=> site.regions[r].soil < 2500

\* ------------------------------------------------------------------------
\* The chronicle tick_once returns (Spec)
\* ------------------------------------------------------------------------

\* The chronicle lines the kernels of the first n recorded steps returned,
\* in the order the steps ran.
RECURSIVE SaidUpTo(_)
SaidUpTo(n) == IF n = 0 THEN <<>> ELSE SaidUpTo(n - 1) \o ran[n].said

\* Where a line with the given text stands in the chronicle, 0 for nowhere.
PositionOf(text) ==
    IF \E i \in 1..Len(chronicle) : chronicle[i].text = text
    THEN CHOOSE i \in 1..Len(chronicle) :
             /\ chronicle[i].text = text
             /\ \A j \in 1..(i - 1) : chronicle[j].text # text
    ELSE 0

\* C26: the chronicle returned by tick_once is the concatenation, in
\* schedule order, of the chronicle lines each kernel produced in that tick,
\* none dropped or replaced; the climate-diagnostics line is always present
\* and precedes any biome-shift line of the climate classification.
C26_ChronicleIsConcatenation ==
    result = "ok" =>
        /\ chronicle = SaidUpTo(Len(ran))
        /\ PositionOf("Climate diagnostics stable; no anomalies detected.") > 0
        /\ PositionOf("Region shifted toward a biome.") > 0 =>
               PositionOf("Climate diagnostics stable; no anomalies detected.")
                   < PositionOf("Region shifted toward a biome.")

\* ------------------------------------------------------------------------
\* Which steps of a tick write the climate carry-state (Spec)
\* ------------------------------------------------------------------------

\* A carry vector after a step holds every value it held before; slots it
\* gained hold 0.
SlotsKept(was, now) ==
    /\ Len(now) >= Len(was)
    /\ \A k \in 1..Len(now) : now[k] = IF k <= Len(was) THEN was[k] ELSE 0

\* The step recorded i-th left baseline, albedo snapshot and sea level as
\* they were.
CarryKept(i) ==
    /\ SlotsKept(ran[i].read.climate.temperature_baseline_tenths,
                 WorldAfter(i).climate.temperature_baseline_tenths)
    /\ SlotsKept(ran[i].read.climate.last_albedo_milli,
                 WorldAfter(i).climate.last_albedo_milli)
    /\ WorldAfter(i).climate.sea_level_equivalent_mm =
           ran[i].read.climate.sea_level_equivalent_mm

\* The step recorded i-th left the insolation carry as it was.
InsolationKept(i) ==
    SlotsKept(ran[i].read.climate.last_insolation_tenths,
              WorldAfter(i).climate.last_insolation_tenths)

\* The insolation carry after the step recorded i-th holds the step's
\* insolation entry for every region that has one and the old value for
\* every other region.
InsolationStored(i) ==
    LET was == ran[i].read.climate.last_insolation_tenths
        now == WorldAfter(i).climate.last_insolation_tenths
        list == ran[i].diff.insolation
    IN  /\ Len(now) >= Len(was)
        /\ \A k \in 1..Len(now) :
               IF \E e \in 1..Len(list) : list[e].region = k - 1
               THEN \E e \in 1..Len(list) : list[e].region = k - 1 /\ now[k] = list[e].value
               ELSE now[k] = IF k <= Len(was) THEN was[k] ELSE 0

FreshWithAlbedoInRange(w) ==
    /\ w.tick = 0
    /\ w.climate = from_regions(w.regions)
    /\ \A r \in 1..Len(w.regions) : w.regions[r].albedo_milli \in 100..ALBEDO_MAX

\* C28: for a world built by World::new whose region albedos all lie in
\* [100, 1000], every temperature_baseline_tenths[r] is 0 after any number
\* of tick_once calls, and the albedo anomaly the coupler sees in a tick is
\* never above 20 in magnitude.
C28_BaselineStaysZero ==
    FreshWithAlbedoInRange(origin) =>
        /\ \A r \in 1..Len(world.climate.temperature_baseline_tenths) :
               world.climate.temperature_baseline_tenths[r] = 0
        /\ pc = "coupler" =>
               \A r \in 1..Len(world.regions) :
                   Abs(world.regions[r].albedo_milli - world.climate.last_albedo_milli[r]) <= 20

\* The second tick of such a world has ended well, and its coupler step saw
\* an albedo that had moved away from the snapshot.
C28_Witness ==
    /\ FreshWithAlbedoInRange(origin)
    /\ result = "ok"
    /\ world.tick = 2
    /\ Len(ran) = 8
    /\ ran[5].stage = "coupler"
    /\ \E r \in 1..Len(ran[5].read.regions) :
           ran[5].read.regions[r].albedo_milli # ran[5].read.climate.last_albedo_milli[r]

\* ------------------------------------------------------------------------
\* Replaying the aggregate diff of a tick (Spec)
\* ------------------------------------------------------------------------

\* C29: applying the aggregate diff a successful tick_once returned to a
\* copy of the world as it was before the tick yields exactly the regions
\* the tick left (biome, water, soil, elevation, temperature, precipitation,
\* albedo, freshwater flux, ice mass, hazards).
C29_ReplayRebuildsRegions ==
    (result = "ok" /\ pc = "idle") =>
        apply(pre, aggregate_diff).regions = world.regions

\* A tick has ended well whose aggregate carries water and soil deltas,
\* temperatures, albedos, ice masses and hazards, and the regions are not
\* what they were before the tick.
C29_Witness ==
    /\ result = "ok"
    /\ pc = "idle"
    /\ aggregate_diff.water # <<>>
    /\ aggregate_diff.soil # <<>>
    /\ aggregate_diff.temperature # <<>>
    /\ aggregate_diff.albedo # <<>>
    /\ aggregate_diff.ice_mass # <<>>
    /\ aggregate_diff.hazards # <<>>
    /\ world.regions # pre.regions

\* ------------------------------------------------------------------------
\* The sea level across ticks (Spec)
\* ------------------------------------------------------------------------

\* C30: across any sequence of tick_once calls climate.sea_level_equivalent_mm
\* never decreases, and once it has reached i32::MAX it stays there.
C30_SeaLevelNeverFalls ==
    [][/\ world'.climate.sea_level_equivalent_mm >= world.climate.sea_level_equivalent_mm
       /\ world.climate.sea_level_equivalent_mm = I32_MAX =>
              world'.climate.sea_level_equivalent_mm = I32_MAX]_vars

\* The sea level rose to i32::MAX in an earlier tick, and the cryosphere step
\* of a later tick, which had melt to add, has been committed.
C30_Witness ==
    /\ origin.climate.sea_level_equivalent_mm < I32_MAX
    /\ pre.climate.sea_level_equivalent_mm = I32_MAX
    /\ Len(ran) >= 5
    /\ ran[4].stage = "cryosphere"
    /\ \E i \in 1..Len(ran[4].diff.causes) :
           ran[4].diff.causes[i].code = Code("SeaLevelContribution")
    /\ ran[5].read.climate.sea_level_equivalent_mm = I32_MAX

====
